---- MODULE Spec2Model ----
(***************************************************************************)
(* A model of the geometry-construction code of the pwr package:           *)
(*   functions.py  get_plane (the plane cache)                             *)
(*   assembly.py   duplicate, add_spacer_to, add_grid_to, Assembly.build   *)
(*   baffle.py     get_openmc_baffle                                       *)
(*   meshes.py     Mesh_Group.add_mesh                                     *)
(*                                                                         *)
(* Python objects live in heaps (sequences); a handle is an index into a   *)
(* heap, so object identity (the handle) is distinct from the object's id  *)
(* attribute.  Lengths are Python floats (IEEE 754 binary64), and their     *)
(* sums, products, quotients, comparisons and round(x, eps) are computed   *)
(* bit for bit as Python computes them.                                    *)
(***************************************************************************)
EXTENDS Integers, Sequences, FiniteSets, TLC

VARIABLES
    counter,     \* the shared Counter: next id of each kind
    surfaces,    \* heap of openmc.Surface objects
    cells,       \* heap of openmc.Cell objects
    universes,   \* heap of openmc.Universe objects
    lattices,    \* heap of openmc.RectLattice objects (ids of the universe kind)
    materials,   \* heap of openmc.Material objects
    surflist,    \* the caller's surface list handed to get_plane/add_spacer_to/add_grid_to
    griddict,    \* the caller's memo handed to add_grid_to: original universe id -> gridded universe
    asm,         \* the Assembly object of the last Assembly(...).build()
    ret,         \* the last call: its name, arguments and returned value
    nops,        \* number of calls made so far
    group        \* the Mesh_Group object meshes are added to

vars == <<counter, surfaces, cells, universes, lattices, materials,
          surflist, griddict, asm, ret, nops, group>>

----------------------------------------------------------------------------
(* Helpers *)

Min(S) == CHOOSE a \in S : \A b \in S : a <= b
Max(S) == CHOOSE a \in S : \A b \in S : a >= b

Range(s) == {s[i] : i \in DOMAIN s}

\* Python's seq[i] with a 0-based index i that may be negative.
PyIndex(s, i) == IF i < 0 THEN s[Len(s) + i + 1] ELSE s[i + 1]

None == [t |-> "none", h |-> 0]

\* Sequencing: the value of F at the value of v.  v is computed once, as the
\* result of a Python statement is, before the statements that follow use it.
Then(v, F(_)) == CHOOSE r \in {F(x) : x \in {v}} : TRUE

----------------------------------------------------------------------------
(* Python floats: IEEE 754 binary64, computed exactly *)

\* A natural number of any size is a sequence of limbs, the least significant
\* first, each below Base, the last one not zero; zero is << >>.
LimbBits == 14
Base == 2 ^ LimbBits

\* Bits of a float's significand (sys.float_info.mant_dig).
Prec == 53

\* Past this many binary places below the larger operand, the smaller operand
\* of a sum only decides which way the sum is rounded.
Far == 64

BLimb(a, i) == IF i \in DOMAIN a THEN a[i] ELSE 0

BTrim(a) == SubSeq(a, 1, Max({0} \cup {i \in DOMAIN a : a[i] # 0}))

\* The limbs of the number whose digits, of any size and sign, are s.
RECURSIVE Carry(_, _, _)
Carry(s, i, c) ==
    IF i > Len(s)
    THEN (IF c = 0 THEN <<>> ELSE <<c % Base>> \o Carry(s, i, c \div Base))
    ELSE <<(s[i] + c) % Base>> \o Carry(s, i + 1, (s[i] + c) \div Base)

BNorm(s) == BTrim(Carry(s, 1, 0))

BFromInt(n) == BNorm(<<n>>)

RECURSIVE BToInt(_)
BToInt(a) == IF a = <<>> THEN 0 ELSE a[1] + Base * BToInt(Tail(a))

BAdd(a, b) == BNorm([i \in 1..Max({Len(a), Len(b)}) |-> BLimb(a, i) + BLimb(b, i)])

\* a - b, for a >= b.
BSub(a, b) == BNorm([i \in 1..Max({Len(a), Len(b)}) |-> BLimb(a, i) - BLimb(b, i)])

\* -1, 0 or 1 as a is below, equal to or above b.
BCmp(a, b) ==
    IF Len(a) # Len(b) THEN (IF Len(a) > Len(b) THEN 1 ELSE -1)
    ELSE IF a = b THEN 0
    ELSE IF a[Max({i \in DOMAIN a : a[i] # b[i]})] > b[Max({i \in DOMAIN a : a[i] # b[i]})]
         THEN 1 ELSE -1

RECURSIVE Conv(_, _, _, _)
Conv(a, b, k, i) ==
    IF i > Min({k, Len(a)}) THEN 0
    ELSE a[i] * BLimb(b, k + 1 - i) + Conv(a, b, k, i + 1)

BMul(a, b) ==
    IF a = <<>> \/ b = <<>> THEN <<>>
    ELSE BNorm([k \in 1..(Len(a) + Len(b) - 1) |-> Conv(a, b, k, 1)])

\* Bit k of a number lies in limb LimbOf(k) + 1, at place BitOf(k) of the limb.
LimbOf(k) == k \div LimbBits
BitOf(k)  == k % LimbBits

\* a * 2^k and the whole part of a / 2^k.
BShl(a, k) ==
    BNorm([i \in 1..(Len(a) + LimbOf(k)) |->
             IF i <= LimbOf(k) THEN 0 ELSE a[i - LimbOf(k)] * (2 ^ BitOf(k))])

BShr(a, k) ==
    BTrim([i \in 1..Max({0, Len(a) - LimbOf(k)}) |->
             (BLimb(a, i + LimbOf(k)) \div (2 ^ BitOf(k)))
             + (BLimb(a, i + LimbOf(k) + 1) % (2 ^ BitOf(k))) * (2 ^ (LimbBits - BitOf(k)))])

\* Bit k of a (bit 0 the lowest), and whether every bit below bit k is zero.
BBit(a, k) == (BLimb(a, LimbOf(k) + 1) \div (2 ^ BitOf(k))) % 2

BLowZero(a, k) ==
    /\ \A i \in 1..LimbOf(k) : BLimb(a, i) = 0
    /\ BLimb(a, LimbOf(k) + 1) % (2 ^ BitOf(k)) = 0

\* The number of bits of a, and of trailing zero bits of a # 0.
BBitLen(a) ==
    IF a = <<>> THEN 0
    ELSE (Len(a) - 1) * LimbBits + Min({k \in 0..LimbBits : a[Len(a)] < 2 ^ k})

BTrailing(a) ==
    (Min({i \in DOMAIN a : a[i] # 0}) - 1) * LimbBits
    + Max({k \in 0..(LimbBits - 1) : a[Min({i \in DOMAIN a : a[i] # 0})] % (2 ^ k) = 0})

\* Quotient and remainder of limbs i, i-1, ..., 1 of a after remainder r, by a
\* divisor d of at most 17 bits.
RECURSIVE DivSmall(_, _, _, _)
DivSmall(a, d, i, r) ==
    IF i = 0 THEN [q |-> <<>>, r |-> r]
    ELSE Then(DivSmall(a, d, i - 1, (r * Base + a[i]) % d), LAMBDA rest :
              [q |-> Append(rest.q, (r * Base + a[i]) \div d), r |-> rest.r])

\* The next quotient limb, floor(r1 / b), for r1 < b * Base and b of more than
\* 17 bits: the leading 15 bits of b bracket it, and the largest candidate
\* whose product with b does not exceed r1 is the limb.
Digit(r1, b) ==
    Then(BToInt(BShr(b, BBitLen(b) - 15)), LAMBDA bt :
    Then(BToInt(BShr(r1, BBitLen(b) - 15)), LAMBDA rt :
         Max({c \in (rt \div (bt + 1))..Min({Base - 1, (rt + 1) \div bt}) :
                  BCmp(BMul(b, BFromInt(c)), r1) <= 0})))

\* Long division limb by limb, from limb j of a down; q and r are the
\* quotient limbs and the remainder so far.
RECURSIVE DivLimbs(_, _, _, _, _)
DivLimbs(a, b, j, q, r) ==
    IF j = 0 THEN [q |-> BTrim(q), r |-> r]
    ELSE Then(BAdd(BShl(r, LimbBits), BFromInt(a[j])), LAMBDA r1 :
         Then(Digit(r1, b), LAMBDA c :
         Then(BSub(r1, BMul(b, BFromInt(c))), LAMBDA r2 :
              DivLimbs(a, b, j - 1, <<c>> \o q, r2))))

\* Quotient q and remainder r of a by b # 0.
BDivMod(a, b) ==
    IF BBitLen(b) <= 17
    THEN Then(DivSmall(a, BToInt(b), Len(a), 0), LAMBDA d :
              [q |-> BTrim(d.q), r |-> BFromInt(d.r)])
    ELSE DivLimbs(a, b, Len(a), <<>>, <<>>)

\* A float is s * m * 2^e with sign s, an odd m of at most Prec bits and any e
\* (no overflow to inf, no subnormal numbers); zero has no sign.
FZero == [s |-> 1, m |-> <<>>, e |-> 0]

\* s * m * 2^e with m's trailing zero bits moved to the exponent.
FNorm(s, m, e) ==
    IF m = <<>> THEN FZero
    ELSE Then(BTrailing(m), LAMBDA t : [s |-> s, m |-> BShr(m, t), e |-> e + t])

\* m without its k > 0 lowest bits: m / 2^k to the nearest whole number, a tie
\* going to the even one.
Cut(m, k) ==
    Then(BShr(m, k), LAMBDA q :
        IF BBit(m, k - 1) = 1 /\ (~BLowZero(m, k - 1) \/ BLimb(q, 1) % 2 = 1)
        THEN BAdd(q, <<1>>) ELSE q)

\* The float nearest s * m * 2^e.
FRound(s, m, e) ==
    Then(BBitLen(m) - Prec, LAMBDA k :
        FNorm(s, IF k <= 0 THEN m ELSE Cut(m, k), IF k <= 0 THEN e ELSE e + k))

FNeg(x) == IF x.m = <<>> THEN x ELSE [x EXCEPT !.s = -x.s]
FAbs(x) == [x EXCEPT !.s = 1]

\* |x| < 2^Top(x)
Top(x) == x.e + BBitLen(x.m)

\* x + y for x, y # 0 whose exponents are no further apart than the shift allows.
FAddNear(x, y) ==
    Then(Min({x.e, y.e}), LAMBDA e0 :
    Then(BShl(x.m, x.e - e0), LAMBDA a :
    Then(BShl(y.m, y.e - e0), LAMBDA b :
    Then(BCmp(a, b), LAMBDA c :
        FRound(IF x.s = y.s \/ c > 0 THEN x.s ELSE y.s,
               IF x.s = y.s THEN BAdd(a, b)
               ELSE BSub(IF c >= 0 THEN a ELSE b, IF c >= 0 THEN b ELSE a),
               e0)))))

\* x + y
FAdd(x, y) ==
    IF x.m = <<>> THEN y
    ELSE IF y.m = <<>> THEN x
    ELSE Then(Top(x), LAMBDA tx :
         Then(Top(y), LAMBDA ty :
              FAddNear(IF ty - tx > Far THEN [s |-> x.s, m |-> <<1>>, e |-> ty - Far - 1] ELSE x,
                       IF tx - ty > Far THEN [s |-> y.s, m |-> <<1>>, e |-> tx - Far - 1] ELSE y)))

\* x - y, x * y
FSub(x, y) == FAdd(x, FNeg(y))
FMul(x, y) == FRound(x.s * y.s, BMul(x.m, y.m), x.e + y.e)

\* The float nearest s * (n / d) * 2^e, for naturals n and odd d: the quotient
\* to Prec + 2 bits or more, with a last bit that tells whether anything remained.
QuotOdd(s, n, d, e) ==
    IF n = <<>> THEN FZero
    ELSE Then(Max({0, Prec + 2 + BBitLen(d) - BBitLen(n)}), LAMBDA sh :
         Then(BDivMod(BShl(n, sh), d), LAMBDA qr :
              FRound(s, BAdd(BShl(qr.q, 1), IF qr.r = <<>> THEN <<>> ELSE <<1>>),
                     e - sh - 1)))

\* The float nearest s * (n / d) * 2^e, for naturals n and d # 0.
Quot(s, n, d, e) == Then(BTrailing(d), LAMBDA t : QuotOdd(s, n, BShr(d, t), e - t))

\* x / y, y # 0
FDiv(x, y) == Quot(x.s * y.s, x.m, y.m, x.e - y.e)

RECURSIVE Pow10(_)
Pow10(k) == IF k = 0 THEN <<1>> ELSE BMul(Pow10(k - 1), <<10>>)

\* The float a decimal literal denotes: n * 10^-k for integers n and k >= 0.
Dec(n, k) == Quot(IF n < 0 THEN -1 ELSE 1, BFromInt(IF n < 0 THEN -n ELSE n), Pow10(k), 0)

\* float(n)
FInt(n) == Dec(n, 0)

\* -1, 0 or 1 as x is below, equal to or above y.
FCmp(x, y) ==
    IF x.m = <<>> THEN (IF y.m = <<>> THEN 0 ELSE -y.s)
    ELSE IF y.m = <<>> \/ x.s # y.s THEN x.s
    ELSE Then(Top(x) - Top(y), LAMBDA g :
              IF g # 0 THEN (IF g > 0 THEN x.s ELSE -x.s)
              ELSE Then(Min({x.e, y.e}), LAMBDA e0 :
                        x.s * BCmp(BShl(x.m, x.e - e0), BShl(y.m, y.e - e0))))

FLt(x, y) == FCmp(x, y) < 0
FLe(x, y) == FCmp(x, y) <= 0

\* The natural number nearest |x| * 10^k, a tie going to the even one.
Nearest(x, k) ==
    Then(BMul(x.m, Pow10(k)), LAMBDA p : IF x.e >= 0 THEN BShl(p, x.e) ELSE Cut(p, -x.e))

\* round(x, k), k >= 0: the float of x's decimal expansion correctly rounded to
\* k places.  A float with no more than k binary places has no more than k
\* decimal places and is its own rounding.
Round(x, k) == IF x.e >= -k THEN x ELSE Quot(x.s, Nearest(x, k), Pow10(k), 0)

\* round(x), an integer.
RoundInt(x) == x.s * BToInt(Nearest(x, 0))

\* get_plane's default precision: eps = 5 decimal places.
DefaultEps == 5

\* The floats 2.0 and 0.5 of the code's "/ 2.0" and "+ 0.5".
Two     == FInt(2)
OneHalf == Dec(5, 1)

\* The least and the greatest of a set of floats.
FMin(S) == CHOOSE a \in S : \A b \in S : FLe(a, b)
FMax(S) == CHOOSE a \in S : \A b \in S : FLe(b, a)

----------------------------------------------------------------------------
(* The id allocator (pwr.Counter) *)

\* The first id a Counter issues for every kind.
FirstId == 1

Kinds == {"surface", "cell", "material", "universe"}

NewCounter == [k \in Kinds |-> FirstId]

\* counter.count(KIND) / counter.add_surface() / add_cell() / add_universe():
\* issue the next id of the kind and advance that kind's count alone.
count(c, kind) == [id |-> c[kind], counter |-> [c EXCEPT ![kind] = @ + 1]]

----------------------------------------------------------------------------
(* The world: every heap and the allocator, threaded through each call *)

World == [counter |-> counter, surfaces |-> surfaces, cells |-> cells,
          universes |-> universes, lattices |-> lattices, materials |-> materials]

\* openmc.XPlane / YPlane / ZPlane(id, boundary_type, x0|y0|z0, name)
Plane(id, kind, c0, bc, name) ==
    [id |-> id, kind |-> kind, c0 |-> c0, bc |-> bc, name |-> name]

\* The spellings of "plane" in any mixture of upper and lower case.
AnyCasePlane ==
    {p \o l \o a \o n \o e : p \in {"p", "P"}, l \in {"l", "L"}, a \in {"a", "A"},
                             n \in {"n", "N"}, e \in {"e", "E"}}

\* The strings s with s.lower() in (c, c + "plane"), for a letter c and its
\* capital C.
LowersTo(c, C) == {c, C} \cup {h \o t : h \in {c, C}, t \in AnyCasePlane}

\* The strings that name an x-, a y- and a z-plane.
XNames == LowersTo("x", "X")
YNames == LowersTo("y", "Y")
ZNames == LowersTo("z", "Z")

\* "dim = dim.lower()" and the branches on dim: the class of plane dim names,
\* "none" when dim.lower() is not in valid.
PlaneKind(dim) ==
    CASE dim \in XNames -> "XPlane"
      [] dim \in YNames -> "YPlane"
      [] dim \in ZNames -> "ZPlane"
      [] OTHER          -> "none"

\* The positions in surface list sl of the planes of class kind whose
\* coordinate, rounded to eps places, equals val (val is compared as given).
Matches(w, sl, kind, val, eps) ==
    Then(kind, LAMBDA k :
         {i \in 1..Len(sl) : /\ w.surfaces[sl[i]].kind = k
                             /\ val = Round(w.surfaces[sl[i]].c0, eps)})

\* The first plane of surface list sl, of dim's class, whose coordinate rounded
\* to eps places equals val; 0 when none.
FindPlane(w, sl, dim, val, eps) ==
    Then(Matches(w, sl, PlaneKind(dim), val, eps), LAMBDA hits :
         IF hits = {} THEN 0 ELSE sl[Min(hits)])

\* The new plane of get_plane: the next surface id, appended to the list.
NewPlane(w, sl, dim, val, bc, name) ==
    Then(count(w.counter, "surface"), LAMBDA a :
         [w   |-> [w EXCEPT !.counter = a.counter,
                            !.surfaces = Append(@, Plane(a.id, PlaneKind(dim), val, bc, name))],
          sl  |-> Append(sl, Len(w.surfaces) + 1),
          ret |-> Len(w.surfaces) + 1,
          err |-> "ok"])

\* get_plane without the isinstance test: a plane of any class may match.
get_plane_ignoring_class(w, sl, dim, val, bc, name, eps) ==
    IF PlaneKind(dim) = "none"
    THEN [w |-> w, sl |-> sl, ret |-> 0, err |-> "AssertionError"]
    ELSE Then({i \in 1..Len(sl) : val = Round(w.surfaces[sl[i]].c0, eps)}, LAMBDA hits :
              IF hits # {} THEN [w |-> w, sl |-> sl, ret |-> sl[Min(hits)], err |-> "ok"]
              ELSE NewPlane(w, sl, dim, val, bc, name))

\* get_plane(surface_list, counter, dim, val, boundary_type, name, eps): an
\* AssertionError for a dim that names no plane; else the found plane, or a new
\* plane with the next surface id, appended to the list.
get_plane(w, sl, dim, val, bc, name, eps) ==
    IF PlaneKind(dim) = "none"
    THEN [w |-> w, sl |-> sl, ret |-> 0, err |-> "AssertionError"]
    ELSE Then(FindPlane(w, sl, dim, val, eps), LAMBDA found :
              IF found # 0 THEN [w |-> w, sl |-> sl, ret |-> found, err |-> "ok"]
              ELSE NewPlane(w, sl, dim, val, bc, name))

----------------------------------------------------------------------------
(* Regions, cells, universes, lattices *)

\* A region is an expression tree over signed half-spaces of surfaces.
\* +s is Half(1, s), -s is Half(-1, s).
Half(side, s) == [op |-> "half", side |-> side, s |-> s, args |-> <<>>]
And(args)     == [op |-> "and",  side |-> 0,    s |-> 0, args |-> args]
Or(args)      == [op |-> "or",   side |-> 0,    s |-> 0, args |-> args]
Not(r)        == [op |-> "not",  side |-> 0,    s |-> 0, args |-> <<r>>]

\* openmc's a & b: when a is an intersection, a new one of a's nodes followed
\* by b's nodes if b is an intersection too, else by b; when a is none, the
\* intersection of a and b.
RAnd(a, b) ==
    IF a.op # "and" THEN And(<<a, b>>)
    ELSE IF b.op = "and" THEN And(a.args \o b.args)
    ELSE And(Append(a.args, b))

\* openmc's a | b: likewise for unions.
ROr(a, b) ==
    IF a.op # "or" THEN Or(<<a, b>>)
    ELSE IF b.op = "or" THEN Or(a.args \o b.args)
    ELSE Or(Append(a.args, b))

\* Surface.evaluate at the point pt = [x, y, z]: the coordinate less the
\* plane's, or x^2 + y^2 - r^2 for a cylinder on the z axis, in floats.
Evaluate(sf, pt) ==
    CASE sf.kind = "XPlane" -> FSub(pt.x, sf.c0)
      [] sf.kind = "YPlane" -> FSub(pt.y, sf.c0)
      [] sf.kind = "ZPlane" -> FSub(pt.z, sf.c0)
      [] sf.kind = "ZCylinder" ->
            FSub(FAdd(FMul(pt.x, pt.x), FMul(pt.y, pt.y)), FMul(sf.c0, sf.c0))

\* Whether the point pt lies in the half-space on the given side of surface
\* sf: evaluate is zero or more in the positive half-space and below zero in
\* the negative one.
OnSide(sf, side, pt) ==
    IF side > 0 THEN FLe(FZero, Evaluate(sf, pt)) ELSE FLt(Evaluate(sf, pt), FZero)

\* Whether the point pt lies in region r, over the surface heap sfs.
RECURSIVE InRegion(_, _, _)
InRegion(sfs, r, pt) ==
    CASE r.op = "half" -> OnSide(sfs[r.s], r.side, pt)
      [] r.op = "and"  -> \A k \in DOMAIN r.args : InRegion(sfs, r.args[k], pt)
      [] r.op = "or"   -> \E k \in DOMAIN r.args : InRegion(sfs, r.args[k], pt)
      [] r.op = "not"  -> ~InRegion(sfs, r.args[1], pt)

\* The signed half-spaces <<side, surface>> a region mentions.
RECURSIVE HalfSpaces(_)
HalfSpaces(r) ==
    IF r.op = "half" THEN {<<r.side, r.s>>}
    ELSE UNION {HalfSpaces(r.args[k]) : k \in DOMAIN r.args}

\* openmc.Cell(id, name); region and fill are set afterwards.
Cell(id, name, region, fill) ==
    [id |-> id, name |-> name, region |-> region, fill |-> fill]

MatRef(h)  == [t |-> "material", h |-> h]
UnivRef(h) == [t |-> "universe", h |-> h]
LatRef(h)  == [t |-> "lattice",  h |-> h]
CellRef(h) == [t |-> "cell",     h |-> h]
SurfRef(h) == [t |-> "surface",  h |-> h]

\* Universe.add_cell: the cell joins the universe unless a cell of the same id
\* is already a member.
add_cell(w, cellseq, c) ==
    IF \E k \in DOMAIN cellseq : w.cells[cellseq[k]].id = w.cells[c].id
    THEN cellseq ELSE Append(cellseq, c)

----------------------------------------------------------------------------
(* assembly.py: duplicate *)

\* The heap an entity reference points into, and the id kind it draws from.
HeapOf(t) == CASE t = "surface"  -> "surfaces"
               [] t = "cell"     -> "cells"
               [] t = "material" -> "materials"
               [] t = "universe" -> "universes"
               [] OTHER          -> "none"

\* duplicate without the new id: a plain copy(orig), the count still advanced.
duplicate_keeping_id(w, e) ==
    IF HeapOf(e.t) = "none" THEN [w |-> w, ret |-> None, err |-> "TypeError"]
    ELSE LET heap == HeapOf(e.t)
             a    == count(w.counter, e.t)
             dup  == w[heap][e.h]
         IN  [w   |-> [w EXCEPT !.counter = a.counter, ![heap] = Append(@, dup)],
              ret |-> [t |-> e.t, h |-> Len(w[heap]) + 1],
              err |-> "ok"]

\* duplicate without the copy: orig itself is given the new id and returned.
duplicate_in_place(w, e) ==
    IF HeapOf(e.t) = "none" THEN [w |-> w, ret |-> None, err |-> "TypeError"]
    ELSE LET heap == HeapOf(e.t)
             a    == count(w.counter, e.t)
         IN  [w   |-> [w EXCEPT !.counter = a.counter, ![heap][e.h].id = a.id],
              ret |-> e,
              err |-> "ok"]

\* duplicate(orig, counter): a copy of orig (a new object with orig's attributes)
\* whose id is the next id of orig's kind; TypeError for any other class.
duplicate(w, e) ==
    IF HeapOf(e.t) = "none" THEN [w |-> w, ret |-> None, err |-> "TypeError"]
    ELSE LET heap == HeapOf(e.t)
             a    == count(w.counter, e.t)
             dup  == [w[heap][e.h] EXCEPT !.id = a.id]
         IN  [w   |-> [w EXCEPT !.counter = a.counter, ![heap] = Append(@, dup)],
              ret |-> [t |-> e.t, h |-> Len(w[heap]) + 1],
              err |-> "ok"]

----------------------------------------------------------------------------
(* assembly.py: SpacerGrid; add_spacer_to *)

\* A SpacerGrid: key, height, material and the thickness its constructor derived.
SpacerGrid(key, height, material, thickness) ==
    [t |-> "spacergrid", key |-> key, height |-> height,
     material |-> material, thickness |-> thickness]

\* The eight planes of add_spacer_to, in the order the code requests them:
\* top_out, top_in, bot_in, bot_out, left_out, left_in, right_in, right_out.
\* p = pitch / 2.0; the planes lie at p, p - t, -p + t and -p.
SpacerPlaneRequests(pitch, t) ==
    Then(FDiv(pitch, Two), LAMBDA p :
        << <<"y", p, <<>>>>,       <<"y", FSub(p, t), <<>>>>,
           <<"y", FAdd(FNeg(p), t), <<>>>>, <<"y", FNeg(p), <<>>>>,
           <<"x", FNeg(p), <<>>>>, <<"x", FAdd(FNeg(p), t), <<>>>>,
           <<"x", FSub(p, t), <<>>>>, <<"x", p, <<>>>> >>)

\* get_plane for each request <<dim, val, name>> from the k-th on, in turn
\* (default boundary type and eps); planes holds the handles returned so far.
RECURSIVE GetPlanesFrom(_, _, _, _, _)
GetPlanesFrom(w, sl, reqs, k, planes) ==
    IF k > Len(reqs) THEN [w |-> w, sl |-> sl, planes |-> planes]
    ELSE Then(get_plane(w, sl, reqs[k][1], reqs[k][2], "transmission", reqs[k][3], DefaultEps),
              LAMBDA g : GetPlanesFrom(g.w, g.sl, reqs, k + 1, Append(planes, g.ret)))

GetPlanes(w, sl, reqs, k, planes) ==
    Then(reqs, LAMBDA r : GetPlanesFrom(w, sl, r, k, planes))

\* The spacer's region: the four border strips top, right, left, bottom.
SpacerRegion(top_out, top_in, bot_in, bot_out, left_out, left_in, right_in, right_out) ==
    Or(<< And(<<Half(1, left_out),  Half(1, top_in),     Half(-1, top_out), Half(-1, right_out)>>),
          And(<<Half(1, right_in),  Half(-1, right_out), Half(1, bot_in),   Half(-1, top_in)>>),
          And(<<Half(1, left_out),  Half(-1, left_in),   Half(1, bot_in),   Half(-1, top_in)>>),
          And(<<Half(1, bot_out),   Half(-1, bot_in),    Half(1, left_out), Half(-1, right_out)>>) >>)

\* The inner square the duplicated moderator cell is cut down to.
InnerSquare(top_in, bot_in, left_in, right_in) ==
    And(<<Half(1, bot_in), Half(1, left_in), Half(-1, top_in), Half(-1, right_in)>>)

\* add_spacer_to were it to keep every original cell, the old moderator cell
\* included, in the new universe.
SpacerUniverse_keeping_outer(d, sl, P, orig_list, name, material) ==
    LET mod_h   == d.ret.h
        a_sp    == count(d.w.counter, "cell")
        sp_h    == Len(d.w.cells) + 1
        spacer  == Cell(a_sp.id, name \o <<" spacer">>,
                        SpacerRegion(P[1], P[2], P[3], P[4], P[5], P[6], P[7], P[8]),
                        material)
        a_u     == count(a_sp.counter, "universe")
        cells1  == [d.w.cells EXCEPT
                      ![mod_h].region = RAnd(@, InnerSquare(P[2], P[3], P[6], P[7]))]
        w2      == [d.w EXCEPT !.counter = a_u.counter, !.cells = Append(cells1, spacer)]
        members == add_cell(w2, add_cell(w2, orig_list, mod_h), sp_h)
        new_cell == [id |-> a_u.id, name |-> name \o <<" gridded">>, cells |-> members]
    IN  [w   |-> [w2 EXCEPT !.universes = Append(@, new_cell)],
         sl  |-> sl,
         ret |-> UnivRef(Len(d.w.universes) + 1),
         err |-> "ok"]

\* The part of add_spacer_to after the planes P exist and the last original
\* cell has been duplicated (d): the spacer cell, the cut-down moderator cell
\* and the new universe.
SpacerUniverse(d, sl, P, orig_list, name, material) ==
    LET mod_h   == d.ret.h
        a_sp    == count(d.w.counter, "cell")
        sp_h    == Len(d.w.cells) + 1
        spacer  == Cell(a_sp.id, name \o <<" spacer">>,
                        SpacerRegion(P[1], P[2], P[3], P[4], P[5], P[6], P[7], P[8]),
                        material)
        a_u     == count(a_sp.counter, "universe")
        cells1  == [d.w.cells EXCEPT
                      ![mod_h].region = RAnd(@, InnerSquare(P[2], P[3], P[6], P[7]))]
        w2      == [d.w EXCEPT !.counter = a_u.counter, !.cells = Append(cells1, spacer)]
        kept    == SubSeq(orig_list, 1, Len(orig_list) - 1)
        members == add_cell(w2, add_cell(w2, kept, mod_h), sp_h)
        new_cell == [id |-> a_u.id, name |-> name \o <<" gridded">>, cells |-> members]
    IN  [w   |-> [w2 EXCEPT !.universes = Append(@, new_cell)],
         sl  |-> sl,
         ret |-> UnivRef(Len(d.w.universes) + 1),
         err |-> "ok"]

\* add_spacer_to with the two type checks moved behind the creation of the
\* planes: what the checks of lines 151-152 are there to prevent.
add_spacer_to_checking_late(w, sl, pincell, pitch, t, material) ==
    Then(GetPlanes(w, sl, SpacerPlaneRequests(pitch, t), 1, <<>>), LAMBDA g :
        IF pincell.t # "universe" \/ material.t # "material"
        THEN [w |-> g.w, sl |-> g.sl, ret |-> None, err |-> "AssertionError"]
        ELSE LET orig_list == w.universes[pincell.h].cells
             IN  IF orig_list = <<>>
                 THEN [w |-> g.w, sl |-> g.sl, ret |-> None, err |-> "IndexError"]
                 ELSE Then(duplicate(g.w, CellRef(orig_list[Len(orig_list)])), LAMBDA d :
                           SpacerUniverse(d, g.sl, g.planes, orig_list,
                                          w.universes[pincell.h].name, material)))

\* add_spacer_to(pincell, pitch, t, material, counter, surflist)
add_spacer_to(w, sl, pincell, pitch, t, material) ==
    IF pincell.t # "universe" \/ material.t # "material"
    THEN [w |-> w, sl |-> sl, ret |-> None, err |-> "AssertionError"]
    ELSE
    Then(GetPlanes(w, sl, SpacerPlaneRequests(pitch, t), 1, <<>>), LAMBDA g :
        LET orig_list == w.universes[pincell.h].cells
        IN  IF orig_list = <<>>
            THEN [w |-> g.w, sl |-> g.sl, ret |-> None, err |-> "IndexError"]
            ELSE Then(duplicate(g.w, CellRef(orig_list[Len(orig_list)])), LAMBDA d :
                      SpacerUniverse(d, g.sl, g.planes, orig_list,
                                     w.universes[pincell.h].name, material)))

----------------------------------------------------------------------------
(* assembly.py: add_grid_to *)

\* The body of add_grid_to's inner loop at row j, column i (0-based): look the
\* occupying universe's id up in the memo, or add the spacer to it and store
\* the result; then row[i] = new_cell.  st.called lists the ids add_spacer_to
\* was called for.
GridPosition(st, lat, pitch, spacergrid, j, i) ==
    LET old_cell == PyIndex(PyIndex(lat.universes, j), i)
        key      == st.w.universes[old_cell].id
    IN  IF key \in DOMAIN st.gd
        THEN [st EXCEPT !.row[i + 1] = st.gd[key]]
        ELSE Then(add_spacer_to(st.w, st.sl, UnivRef(old_cell), pitch,
                                spacergrid.thickness, spacergrid.material), LAMBDA a :
                  IF a.err # "ok"
                  THEN [st EXCEPT !.w = a.w, !.sl = a.sl, !.err = a.err]
                  ELSE [st EXCEPT !.w = a.w, !.sl = a.sl,
                                  !.gd = (key :> a.ret.h) @@ st.gd,
                                  !.called = Append(@, key),
                                  !.row[i + 1] = a.ret.h])

\* for j in range(n): for i in range(n): ..., position k = j*n + i onwards.
RECURSIVE GridLoop(_, _, _, _, _, _)
GridLoop(st, lat, pitch, spacergrid, n, k) ==
    IF k >= n * n \/ st.err # "ok" THEN st
    ELSE Then(GridPosition(st, lat, pitch, spacergrid, k \div n, k % n), LAMBDA s :
              GridLoop(s, lat, pitch, spacergrid, n, k + 1))

\* new_universes = [[None,]*n,]*n holds n references to ONE row list, which
\* "row = new_universes[j]; row[i] = new_cell" overwrites for every j: every
\* row of the finished array is that one list.
NewUniverses(row, n) == [j \in 1..n |-> row]

\* add_grid_to(lattice, pitch, npins, spacergrid, counter, griddict, surflist)
add_grid_to(w, sl, gd, lattice, pitch, npins, spacergrid) ==
    IF lattice.t # "lattice" \/ spacergrid.t # "spacergrid"
    THEN [w |-> w, sl |-> sl, gd |-> gd, ret |-> None, called |-> <<>>,
          err |-> "AssertionError"]
    ELSE
    Then(GridLoop([w |-> w, sl |-> sl, gd |-> gd, row |-> [i \in 1..npins |-> 0],
                   called |-> <<>>, err |-> "ok"],
                  w.lattices[lattice.h], pitch, spacergrid, npins, 0), LAMBDA st :
        LET lat == w.lattices[lattice.h]
            new_name == IF lat.name # <<>> THEN lat.name \o <<"-gridded">>
                        ELSE <<ToString(lat.id), "-gridded">>
            a   == count(st.w.counter, "universe")
            gridded == [id |-> a.id, name |-> new_name, pitch |-> <<pitch, pitch>>,
                        lower_left |-> <<FDiv(FMul(FNeg(pitch), FInt(npins)), Two),
                                         FDiv(FMul(FNeg(pitch), FInt(npins)), Two)>>,
                        universes |-> NewUniverses(st.row, npins)]
        IN  IF st.err # "ok"
            THEN [w |-> st.w, sl |-> st.sl, gd |-> st.gd, ret |-> None,
                  called |-> st.called, err |-> st.err]
            ELSE [w   |-> [st.w EXCEPT !.counter = a.counter,
                                       !.lattices = Append(@, gridded)],
                  sl  |-> st.sl, gd |-> st.gd,
                  ret |-> LatRef(Len(st.w.lattices) + 1),
                  called |-> st.called, err |-> "ok"])

----------------------------------------------------------------------------
(* assembly.py: class Assembly *)

\* A Nozzle as build reads it: its height and its material.
Nozzle(height, material) == [t |-> "nozzle", height |-> height, material |-> material]

\* The attributes Assembly.__init__ stores, in the order it stores them.
AttrOrder == <<"key", "name", "universe_id", "pitch", "npins", "lattices",
               "lattice_elevs", "spacers", "spacer_mids", "lower_nozzle",
               "upper_nozzle", "walls", "mod", "counter">>

\* The attributes __prebuild and build add, in the order they first set them.
LaterAttrs == <<"openmc_cells", "openmc_surfaces", "spacer_elevs", "all_elevs",
                "gridded_pincells", "gridded_lattices", "wall_region", "assembly">>

\* The attributes __prebuild sets, given whether there are spacer midpoints.
PrebuildAttrs(mids) ==
    {"openmc_cells", "openmc_surfaces", "all_elevs", "gridded_pincells",
     "gridded_lattices", "wall_region"}
    \cup (IF mids # <<>> THEN {"spacer_elevs"} ELSE {})

\* self.__dict__ in order: what __init__ stored, then what was added since
\* (self.has).
DictOrder(self) == AttrOrder \o SelectSeq(LaterAttrs, LAMBDA a : a \in self.has)

\* "not self.__dict__[attr]": an empty string, list or dictionary, a zero, or
\* None.
Falsy(self, attr) ==
    CASE attr = "key"           -> self.key = ""
      [] attr = "name"          -> self.name = <<>>
      [] attr = "universe_id"   -> self.universe_id = 0
      [] attr = "pitch"         -> self.pitch = FZero
      [] attr = "npins"         -> self.npins = 0
      [] attr = "lattices"      -> self.lattices = <<>>
      [] attr = "lattice_elevs" -> self.lattice_elevs = <<>>
      [] attr = "spacers"       -> self.spacers = <<>>
      [] attr = "spacer_mids"   -> self.spacer_mids = <<>>
      [] attr = "lower_nozzle"  -> self.lower_nozzle = None
      [] attr = "upper_nozzle"  -> self.upper_nozzle = None
      [] attr = "walls"         -> self.walls = <<>>
      [] attr = "mod"           -> self.mod = None
      [] attr = "counter"       -> ~self.counter
      [] attr = "openmc_cells"     -> self.openmc_cells = <<>>
      [] attr = "openmc_surfaces"  -> self.openmc_surfaces = <<>>
      [] attr = "spacer_elevs"     -> self.spacer_elevs = <<>>
      [] attr = "all_elevs"        -> self.all_elevs = <<>>
      [] attr = "gridded_pincells" -> DOMAIN self.gridded_pincells = {}
      [] attr = "gridded_lattices" -> DOMAIN self.gridded_lattices = {}
      [] attr = "wall_region"      -> self.wall_region.args = <<>>
      [] attr = "assembly"         -> FALSE

\* blank_allowable, given the lattice elevations.
BlankAllowable(self) ==
    {"universe_id", "spacers", "spacer_mids", "upper_nozzle", "walls"}
    \cup (IF FMin(Range(self.lattice_elevs)) = FZero THEN {"lower_nozzle"} ELSE {})

\* The attributes the error message lists, in order.
RECURSIVE MissingFrom(_, _)
MissingFrom(self, k) ==
    IF k > Len(DictOrder(self)) THEN <<>>
    ELSE (IF Falsy(self, DictOrder(self)[k]) /\ DictOrder(self)[k] \notin BlankAllowable(self)
          THEN <<DictOrder(self)[k]>> ELSE <<>>) \o MissingFrom(self, k + 1)

\* spacer_elevs: (s_bot, s_top) of every spacer grid, in order, with
\* s_bot = mid - spacer.height / 2.0 and s_top = mid + spacer.height / 2.0.
RECURSIVE SpacerElevs(_, _, _)
SpacerElevs(spacers, mids, i) ==
    IF i > Len(spacers) THEN <<>>
    ELSE <<FSub(mids[i], FDiv(spacers[i].height, Two)),
           FAdd(mids[i], FDiv(spacers[i].height, Two))>>
         \o SpacerElevs(spacers, mids, i + 1)

\* A set of integers in ascending order.
RECURSIVE SortedSeq(_)
SortedSeq(S) == IF S = {} THEN <<>> ELSE <<Min(S)>> \o SortedSeq(S \ {Min(S)})

\* sorted(set(elevs)) as a list: a set of floats in ascending order.
RECURSIVE FSorted(_)
FSorted(S) == IF S = {} THEN <<>> ELSE <<FMin(S)>> \o FSorted(S \ {FMin(S)})

\* all_elevs: the sorted, duplicate-free merge when there are spacer midpoints,
\* else lattice_elevs itself.
AllElevs(self) ==
    IF self.spacer_mids # <<>>
    THEN FSorted(Range(SpacerElevs(self.spacers, self.spacer_mids, 1) \o self.lattice_elevs))
    ELSE self.lattice_elevs

\* The assembly's four walls min_x, max_x, min_y, max_y, when the caller gave
\* none: planes at -half and +half got through the assembly's own surface list.
WallRequests(half, name) ==
    << <<"x", FNeg(half), name \o <<" - min_x">>>>, <<"x", half, name \o <<" - max_x">>>>,
       <<"y", FNeg(half), name \o <<" - min_y">>>>, <<"y", half, name \o <<" - max_y">>>> >>

\* openmc.Intersection(*nodes): the intersection whose nodes are the arguments,
\* as openmc.Union() with no argument at baffle.py 51 has it.
Intersection(nodes) == And(nodes)

\* wall_region = openmc.Intersection(+min_x & +min_y & -max_x & -max_y): an
\* intersection of one node, the intersection of the four half-spaces.
WallRegion(walls) ==
    Intersection(<<RAnd(RAnd(RAnd(Half(1, walls[1]), Half(1, walls[3])),
                             Half(-1, walls[2])), Half(-1, walls[4]))>>)

\* The attributes __prebuild and build add to an Assembly, before they are
\* set; has is the set of those that were set.
Unbuilt == [spacer_elevs |-> <<>>, all_elevs |-> <<>>, openmc_surfaces |-> <<>>,
            openmc_cells |-> <<>>, gridded_pincells |-> <<>>, gridded_lattices |-> <<>>,
            wall_region |-> And(<<>>), assembly |-> 0, has |-> {}]

\* Assembly(key, ...): the object __init__ leaves, for the arguments config.
NewAssembly(config) == config @@ Unbuilt

\* Assembly.__prebuild on the Assembly self0: the attributes after the call,
\* and the error raised ("ok" for none).
prebuild(w, self0) ==
    LET self == [self0 EXCEPT !.name = IF @ = <<>> /\ self0.key # "" THEN <<self0.key>> ELSE @]
    IN  IF self.lattice_elevs = <<>>
        THEN [w |-> w, self |-> self, err |-> "ValueError", missing |-> <<>>]
        ELSE IF MissingFrom(self, 1) # <<>>
        THEN [w |-> w, self |-> self, err |-> "TypeError", missing |-> MissingFrom(self, 1)]
        ELSE IF Len(self.lattice_elevs) # Len(self.lattices) + 1
                \/ Len(self.spacers) # Len(self.spacer_mids)
        THEN [w |-> w, self |-> self, err |-> "AssertionError", missing |-> <<>>]
        ELSE
        Then(IF self.walls # <<>>
             THEN [w |-> w, sl |-> <<>>, planes |-> self.walls]
             ELSE GetPlanes(w, <<>>,
                            WallRequests(FDiv(FMul(self.pitch, FInt(self.npins)), Two), self.name),
                            1, <<>>),
             LAMBDA g :
             [w    |-> g.w,
              self |-> [self EXCEPT
                        !.walls            = g.planes,
                        !.spacer_elevs     = IF self.spacer_mids # <<>>
                                             THEN SpacerElevs(self.spacers, self.spacer_mids, 1)
                                             ELSE @,
                        !.all_elevs        = AllElevs(self),
                        !.openmc_surfaces  = g.planes,
                        !.openmc_cells     = <<>>,
                        !.gridded_pincells = <<>>,
                        !.gridded_lattices = <<>>,
                        !.wall_region      = WallRegion(g.planes),
                        !.has              = @ \cup PrebuildAttrs(self.spacer_mids)],
              err  |-> "ok", missing |-> <<>>])

----------------------------------------------------------------------------
(* assembly.py: Assembly.build *)

\* "for i in range(len(self.lattices)): if z <= lattice_elevs[i] and
\* z > lattice_elevs[i-1]: break" -- the value of i after the loop: the first i
\* that breaks, else the last i of the range.  Index -1 is the last entry.
LatticeLoopIndex(self, z) ==
    LET n    == Len(self.lattices)
        hits == {i \in 0..(n - 1) : /\ FLe(z, PyIndex(self.lattice_elevs, i))
                                    /\ FLt(PyIndex(self.lattice_elevs, i - 1), z)}
    IN  IF hits # {} THEN Min(hits) ELSE n - 1

\* "for g in range(len(self.spacer_mids)): if z == spacer_elevs[g]: break"
\* -- the value of g after the loop.
SpacerLoopIndex(self, z) ==
    LET n    == Len(self.spacer_mids)
        hits == {g \in 0..(n - 1) : z = PyIndex(self.spacer_elevs, g)}
    IN  IF hits # {} THEN Min(hits) ELSE n - 1

\* The spacer grid build takes to be present at the layer ending at z: 0 for
\* none ("grid = False"), else the position in self.spacers, counted from 1,
\* of self.spacers[g-1].
GridAt(self, z) ==
    IF self.spacer_mids = <<>> THEN 0
    ELSE LET g == SpacerLoopIndex(self, z)
         IN  IF (g - 1) % 2 = 0 THEN g ELSE 0

\* The layer's lattice when no grid is present: lat itself.
Ungridded(st, lat) ==
    [w |-> st.w, sl |-> st.self.openmc_surfaces, gp |-> st.self.gridded_pincells,
     gl |-> st.self.gridded_lattices, lat |-> lat, generated |-> FALSE, err |-> "ok"]

\* add_grid_to on lat with the assembly's memo and surface list; the result is
\* stored in gridded_lattices under lat's id.
Generate(st, lat, grid) ==
    Then(add_grid_to(st.w, st.self.openmc_surfaces, st.self.gridded_pincells,
                     LatRef(lat), st.self.pitch, st.self.npins, st.self.spacers[grid]),
         LAMBDA a :
         [w |-> a.w, sl |-> a.sl, gp |-> a.gd,
          gl  |-> IF a.err = "ok"
                  THEN (st.w.lattices[lat].id :> a.ret.h) @@ st.self.gridded_lattices
                  ELSE st.self.gridded_lattices,
          lat |-> a.ret.h, generated |-> TRUE, err |-> a.err])

\* "if grid:" without the table lookup: add_grid_to on every gridded layer.
GriddedLattice_regenerating(st, lat, grid) == Generate(st, lat, grid)

\* "if grid:" -- the gridded variant of lattice lat: the one stored under
\* str(lat.id) in self.gridded_lattices, else a new one from add_grid_to.
GriddedLattice(st, lat, grid) ==
    IF st.w.lattices[lat].id \in DOMAIN st.self.gridded_lattices
    THEN [Ungridded(st, lat) EXCEPT
            !.lat = st.self.gridded_lattices[st.w.lattices[lat].id]]
    ELSE Generate(st, lat, grid)

\* What one pass of the loop adds to the Assembly: the layer's cell, whose
\* region runs from plane lower to plane s, and last_s = s.  st.log records, per
\* layer, what the pass decided and the allocator's counts after it.
AddLayer(st, z, s, lat0, grid, gl, lower) ==
    LET a     == count(gl.w.counter, "cell")
        layer == Cell(a.id, gl.w.lattices[gl.lat].name,
                      RAnd(RAnd(st.self.wall_region, Half(1, lower)), Half(-1, s)),
                      LatRef(gl.lat))
        h     == Len(gl.w.cells) + 1
    IN  [st EXCEPT !.w = [gl.w EXCEPT !.counter = a.counter, !.cells = Append(@, layer)],
                   !.self.openmc_surfaces  = gl.sl,
                   !.self.gridded_pincells = gl.gp,
                   !.self.gridded_lattices = gl.gl,
                   !.self.openmc_cells     = Append(@, h),
                   !.last_s = s,
                   !.log = Append(@, [z |-> z, cell |-> h, lat |-> lat0, grid |-> grid,
                                      generated |-> gl.generated, fill |-> gl.lat,
                                      lower |-> lower, upper |-> s,
                                      counter |-> a.counter])]

\* The state when add_grid_to raised: the error leaves build.
Raised(st, gl) ==
    [st EXCEPT !.w = gl.w, !.self.openmc_surfaces = gl.sl,
               !.self.gridded_pincells = gl.gp, !.err = gl.err]

\* "layer = openmc.Cell(...); layer.region = (self.wall_region & +last_s & -s);
\* layer.fill = lat": the layer's cell, between last_s and s, filled with gl.lat.
LayerCell(st, z, s, lat0, grid, gl) ==
    IF gl.err # "ok" THEN Raised(st, gl)
    ELSE AddLayer(st, z, s, lat0, grid, gl, st.last_s)

\* One pass of "for z in self.all_elevs[1:]": the plane at z, the lattice and
\* the spacer grid of the layer, and the layer's cell.
Layer(st, z) ==
    Then(get_plane(st.w, st.self.openmc_surfaces, "z", z, "transmission", <<>>, DefaultEps),
         LAMBDA p :
         Then([st EXCEPT !.w = p.w, !.self.openmc_surfaces = p.sl], LAMBDA st1 :
              LET lat0 == PyIndex(st.self.lattices, LatticeLoopIndex(st.self, z) - 1)
                  grid == GridAt(st.self, z)
              IN  Then(IF grid # 0 THEN GriddedLattice(st1, lat0, grid)
                       ELSE Ungridded(st1, lat0),
                       LAMBDA gl : LayerCell(st1, z, p.ret, lat0, grid, gl))))

\* The passes for all_elevs[k-1], all_elevs[k], ... (k counted from 1).
RECURSIVE Layers(_, _)
Layers(st, k) ==
    IF k > Len(st.self.all_elevs) \/ st.err # "ok" THEN st
    ELSE Then(Layer(st, st.self.all_elevs[k]), LAMBDA s : Layers(s, k + 1))

\* The lower nozzle's cell: between surf0 and the plane at the nozzle's height.
LowerNozzle(st) ==
    LET a == count(st.w.counter, "cell")
    IN  Then(get_plane([st.w EXCEPT !.counter = a.counter], st.self.openmc_surfaces,
                       "z", st.self.lower_nozzle.height, "transmission", <<>>, DefaultEps),
             LAMBDA p :
             LET lnoz == Cell(a.id, <<"lower nozzle">>,
                              RAnd(RAnd(st.self.wall_region, Half(1, st.last_s)),
                                   Half(-1, p.ret)),
                              st.self.lower_nozzle.material)
             IN  [st EXCEPT !.w = [p.w EXCEPT !.cells = Append(@, lnoz)],
                            !.self.openmc_surfaces = p.sl,
                            !.self.openmc_cells = Append(@, Len(p.w.cells) + 1),
                            !.last_s = p.ret,
                            !.lnoz = Len(p.w.cells) + 1])

\* "if self.upper_nozzle:" -- the cell unoz is made between last_s and the plane
\* get_plane returns for z = upper_nozzle.height; the cell appended to
\* openmc_cells is lnoz, a local that is unbound when there is no lower nozzle.
UpperNozzle(st) ==
    LET a == count(st.w.counter, "cell")
    IN  Then(get_plane([st.w EXCEPT !.counter = a.counter], st.self.openmc_surfaces,
                       "z", st.self.upper_nozzle.height, "transmission", <<>>, DefaultEps),
             LAMBDA p :
             LET unoz == Cell(a.id, <<"upper nozzle">>,
                              RAnd(RAnd(st.self.wall_region, Half(1, st.last_s)),
                                   Half(-1, p.ret)),
                              st.self.upper_nozzle.material)
                 st1  == [st EXCEPT !.w = [p.w EXCEPT !.cells = Append(@, unoz)],
                                    !.self.openmc_surfaces = p.sl,
                                    !.unoz = Len(p.w.cells) + 1]
             IN  IF st.lnoz = 0
                 THEN [st1 EXCEPT !.err = "UnboundLocalError"]
                 ELSE [st1 EXCEPT !.self.openmc_cells = Append(@, st.lnoz),
                                  !.last_s = p.ret])

\* self.assembly.add_cells(self.openmc_cells), from the k-th cell on.
RECURSIVE add_cells(_, _, _, _)
add_cells(w, cellseq, cs, k) ==
    IF k > Len(cs) THEN cellseq
    ELSE Then(add_cell(w, cellseq, cs[k]), LAMBDA m : add_cells(w, m, cs, k + 1))

\* The moderator cell around the stack and the finished universe.
Finish(st) ==
    LET self == st.self
        a    == count(st.w.counter, "cell")
        mod_cell == Cell(a.id, self.name \o <<" mod">>,
                         ROr(ROr(Not(self.wall_region), Half(1, st.last_s)), Half(-1, st.surf0)),
                         self.mod)
        h    == Len(st.w.cells) + 1
        w1   == [st.w EXCEPT !.counter = a.counter, !.cells = Append(@, mod_cell)]
        all  == Append(self.openmc_cells, h)
        u    == IF self.universe_id # 0
                THEN [id |-> self.universe_id, counter |-> w1.counter]
                ELSE count(w1.counter, "universe")
        univ == [id |-> u.id, name |-> self.name, cells |-> add_cells(w1, <<>>, all, 1)]
    IN  [st EXCEPT !.w = [w1 EXCEPT !.counter = u.counter, !.universes = Append(@, univ)],
                   !.self.openmc_cells = all,
                   !.self.assembly = Len(st.w.universes) + 1,
                   !.self.has = @ \cup {"assembly"},
                   !.mod_cell = h]

\* surf0, the plane z = 0 named "bottom", made without looking in the list.
Bottom(st) ==
    LET a == count(st.w.counter, "surface")
    IN  [st EXCEPT !.w = [st.w EXCEPT !.counter = a.counter,
                                      !.surfaces = Append(@, Plane(a.id, "ZPlane", FZero,
                                                              "transmission", <<"bottom">>))],
                   !.self.openmc_surfaces = Append(@, Len(st.w.surfaces) + 1),
                   !.surf0 = Len(st.w.surfaces) + 1,
                   !.last_s = Len(st.w.surfaces) + 1]

\* What a call of test_prebuild or build starts from when __prebuild has
\* returned or raised (pb): the Assembly, the error, and a record of what
\* build did, still empty; counter0 is the Counter before the call.
AfterPrebuild(w, pb, stage) ==
    [w |-> pb.w, self |-> pb.self, err |-> pb.err, missing |-> pb.missing,
     stage |-> stage, counter0 |-> w.counter, surf0 |-> 0, last_s |-> 0,
     lnoz |-> 0, unoz |-> 0, mod_cell |-> 0, log |-> <<>>]

\* Assembly.test_prebuild() on the Assembly self0: __prebuild alone.
test_prebuild(w, self0) ==
    Then(prebuild(w, self0), LAMBDA pb : AfterPrebuild(w, pb, "test_prebuild"))

\* Assembly.build() on the Assembly self0: the world after the call and the
\* Assembly object, with the error raised (or "ok") and a record of what
\* build did.
build(w, self0) ==
    Then(prebuild(w, self0), LAMBDA pb :
    Then(AfterPrebuild(w, pb, "build"), LAMBDA blank :
        IF blank.err # "ok" THEN blank
        ELSE
        Then(Bottom(blank), LAMBDA st0 :
        Then(IF st0.self.lower_nozzle # None THEN LowerNozzle(st0) ELSE st0, LAMBDA st1 :
        Then(Layers(st1, 2), LAMBDA st2 :
        Then(IF st2.err = "ok" /\ st2.self.upper_nozzle # None
             THEN UpperNozzle(st2) ELSE st2, LAMBDA st3 :
             IF st3.err = "ok" THEN Finish(st3) ELSE st3))))))

----------------------------------------------------------------------------
(* The objects a caller builds before using the package *)

\* Pins across a lattice.
NPins == 2

\* Pin pitch: 1.26 cm.
Pitch == Dec(126, 2)

\* The initial objects, by their place in the heaps.
Mod     == MatRef(1)
Iron    == MatRef(2)
Inconel == MatRef(3)
PinA    == UnivRef(1)
PinB    == UnivRef(2)
L1      == LatRef(1)
L2      == LatRef(2)
L17     == LatRef(3)

\* A lattice with array arr, named name, of n pins across.
Lattice(id, name, arr, n) ==
    [id |-> id, name |-> name, pitch |-> <<Pitch, Pitch>>,
     lower_left |-> <<FDiv(FMul(FNeg(Pitch), FInt(n)), Two),
                      FDiv(FMul(FNeg(Pitch), FInt(n)), Two)>>, universes |-> arr]

\* The n x n arrays over the two pin cells.
Arrays(n) == [1..n -> [1..n -> {PinA.h, PinB.h}]]

Uniform(n, u) == [j \in 1..n |-> [i \in 1..n |-> u.h]]
Checker(n)    == [j \in 1..n |-> [i \in 1..n |-> IF (i + j) % 2 = 0 THEN PinA.h ELSE PinB.h]]

\* Three materials, two pin cells of two concentric cells each (a ring inside
\* a cylinder, the moderator outside it), and two lattices of NPins pins across
\* (with big, a third of 17 x 17 pins); every id was issued by the shared Counter.
InitWorld(arr1, arr2, big) ==
    [materials |-> << [id |-> FirstId,     name |-> <<"mod">>],
                      [id |-> FirstId + 1, name |-> <<"iron">>],
                      [id |-> FirstId + 2, name |-> <<"inconel">>] >>,
     surfaces  |-> << [id |-> FirstId,     kind |-> "ZCylinder", c0 |-> Dec(3, 1),
                       bc |-> "transmission", name |-> <<>>],
                      [id |-> FirstId + 1, kind |-> "ZCylinder", c0 |-> Dec(4, 1),
                       bc |-> "transmission", name |-> <<>>] >>,
     cells     |-> << Cell(FirstId,     <<"ringA">>,  Half(-1, 1), Iron),
                      Cell(FirstId + 1, <<"outerA">>, Half(1, 1),  Mod),
                      Cell(FirstId + 2, <<"ringB">>,  Half(-1, 2), Inconel),
                      Cell(FirstId + 3, <<"outerB">>, Half(1, 2),  Mod) >>,
     universes |-> << [id |-> FirstId,     name |-> <<"A">>, cells |-> <<1, 2>>],
                      [id |-> FirstId + 1, name |-> <<"B">>, cells |-> <<3, 4>>] >>,
     lattices  |-> << Lattice(FirstId + 2, <<"L1">>,  arr1, NPins),
                      Lattice(FirstId + 3, <<"L2">>,  arr2, NPins) >>
                   \o (IF big THEN <<Lattice(FirstId + 4, <<"L17">>, Uniform(17, PinA), 17)>>
                       ELSE <<>>),
     counter   |-> [surface |-> FirstId + 2, cell |-> FirstId + 4,
                    material |-> FirstId + 3,
                    universe |-> IF big THEN FirstId + 5 ELSE FirstId + 4]]

NoCall == [op |-> "none"]

NoAssembly == [err |-> "unbuilt"]

\* No Mesh_Group was made.
NoGroup == [meshes |-> <<>>]

InitWith(arr1, arr2, big) ==
    \E w \in {InitWorld(arr1, arr2, big)} :
        /\ counter = w.counter
        /\ surfaces = w.surfaces
        /\ cells = w.cells
        /\ universes = w.universes
        /\ lattices = w.lattices
        /\ materials = w.materials
        /\ surflist = <<>>
        /\ griddict = <<>>
        /\ asm = NoAssembly
        /\ ret = NoCall
        /\ nops = 0
        /\ group = NoGroup

SetWorld(w) ==
    /\ counter' = w.counter
    /\ surfaces' = w.surfaces
    /\ cells' = w.cells
    /\ universes' = w.universes
    /\ lattices' = w.lattices
    /\ materials' = w.materials

----------------------------------------------------------------------------
(* Calls of get_plane *)

\* Values of dim: two that name a class of plane, one of them in capitals, and
\* one that names none.
Dims == {"x", "YPlane", "w"}

\* Requested coordinates: 1.0, 1.000001, 1.000005 (half way between two values
\* of five places, in decimal) and -1.000001 cm.
PlaneCoords == {FInt(1), Dec(1000001, 6), Dec(1000005, 6), FNeg(Dec(1000001, 6))}

EpsSet == {DefaultEps - 1, DefaultEps}

\* Calls of get_plane in one behaviour.
MaxPlaneCalls == 3

\* get_plane(surflist, counter, dim, val, eps = eps)
GetPlaneOp(dims, coords, epss) ==
    \E dim \in dims, val \in coords, eps \in epss :
        \E g \in {get_plane(World, surflist, dim, val, "transmission", <<>>, eps)} :
            /\ SetWorld(g.w)
            /\ surflist' = g.sl
            /\ ret' = [op |-> "get_plane", dim |-> dim, val |-> val, eps |-> eps,
                       result |-> g.ret, err |-> g.err]
            /\ nops' = nops + 1
            /\ UNCHANGED <<griddict, asm, group>>

InitPlane == InitWith(Uniform(NPins, PinA), Checker(NPins), FALSE)

NextPlane == nops < MaxPlaneCalls /\ GetPlaneOp(Dims, PlaneCoords, EpsSet)

SpecPlane == InitPlane /\ [][NextPlane]_vars

----------------------------------------------------------------------------
(* Calls of duplicate, add_spacer_to and add_grid_to *)

\* Every object of the heaps, and a lattice (which duplicate does not accept).
Entities ==
    {SurfRef(h) : h \in DOMAIN surfaces} \cup {CellRef(h) : h \in DOMAIN cells}
    \cup {MatRef(h) : h \in DOMAIN materials} \cup {UnivRef(h) : h \in DOMAIN universes}
    \cup {L1}

\* duplicate(e, counter)
DuplicateOp ==
    \E e \in Entities :
        \E d \in {duplicate(World, e)} :
            /\ SetWorld(d.w)
            /\ ret' = [op |-> "duplicate", orig |-> e, result |-> d.ret, err |-> d.err]
            /\ nops' = nops + 1
            /\ UNCHANGED <<surflist, griddict, asm, group>>

\* Two spacer grids of different height, material and thickness (0.1 and 0.05 cm).
SG1 == SpacerGrid("g1", FInt(2), Iron, Dec(1, 1))
SG2 == SpacerGrid("g2", FInt(4), Inconel, Dec(5, 2))

\* add_spacer_to(pincell, Pitch, sg.thickness, sg.material, counter, surflist)
AddSpacerOp ==
    \E pin \in {PinA, PinB}, sg \in {SG1, SG2} :
        \E a \in {add_spacer_to(World, surflist, pin, Pitch, sg.thickness, sg.material)} :
            /\ SetWorld(a.w)
            /\ surflist' = a.sl
            /\ ret' = [op |-> "add_spacer_to", pincell |-> pin, t |-> sg.thickness,
                       material |-> sg.material, result |-> a.ret, err |-> a.err]
            /\ nops' = nops + 1
            /\ UNCHANGED <<griddict, asm, group>>

\* add_grid_to(lattice, Pitch, NPins, sg, counter, griddict, surflist);
\* ret.memo0 is the memo as it was before the call.
AddGridOp ==
    \E lat \in {L1, L2}, sg \in {SG1, SG2} :
        \E a \in {add_grid_to(World, surflist, griddict, lat, Pitch, NPins, sg)} :
            /\ SetWorld(a.w)
            /\ surflist' = a.sl
            /\ griddict' = a.gd
            /\ ret' = [op |-> "add_grid_to", lattice |-> lat, spacergrid |-> sg,
                       result |-> a.ret, called |-> a.called, memo0 |-> griddict,
                       err |-> a.err]
            /\ nops' = nops + 1
            /\ UNCHANGED <<asm, group>>

\* Calls in one behaviour of SpecGrid.
MaxGridCalls == 2

\* The first lattice holds any array of the two pin cells.
InitGrid == \E arr \in Arrays(NPins) : InitWith(arr, Checker(NPins), FALSE)

NextGrid == nops < MaxGridCalls /\ (AddGridOp \/ AddSpacerOp)

SpecGrid == InitGrid /\ [][NextGrid]_vars

----------------------------------------------------------------------------
(* Assemblies to build *)

\* Elevations are whole centimetres from 0 to MaxElev, but for NoisyConfig.
MaxElev == 4

\* Lattices in one assembly, and spacer grids in one assembly.
MaxLattices == 2
MaxSpacers  == 2

\* The lower nozzle ends where the lattices begin, 1 cm up; the upper is 2 cm high.
LowerNozzles == {None, Nozzle(FInt(1), Iron)}
UpperNozzles == {None, Nozzle(FInt(2), Inconel)}

\* Where the lowest lattice begins (cm), given the lower nozzle.
Bottoms(ln) == IF ln = None THEN {0} ELSE {e \in 0..MaxElev : FInt(e) = ln.height}

\* Sets of lattice boundaries from e0 up: 2 to MaxLattices + 1 of them.
BoundarySets(e0) ==
    {B \in SUBSET (e0..MaxElev) : e0 \in B /\ Cardinality(B) \in 2..(MaxLattices + 1)}

\* Sets of spacer band boundaries within e0..top: bottom, top, bottom, top, ...
BandSets(e0, top) ==
    {S \in SUBSET (e0..top) : Cardinality(S) % 2 = 0 /\ Cardinality(S) <= 2 * MaxSpacers}

\* The i-th spacer grid of the bands s: as high as its band, the grids
\* alternating between the two materials and thicknesses.
BandSpacer(s, i) ==
    IF i % 2 = 1 THEN SpacerGrid("g1", FInt(s[2 * i] - s[2 * i - 1]), Iron, Dec(1, 1))
    ELSE SpacerGrid("g2", FInt(s[2 * i] - s[2 * i - 1]), Inconel, Dec(5, 2))

\* The lattices of k segments: all the first lattice, or the two in turn.
LatticeSeqs(k) ==
    {[i \in 1..k |-> L1.h], [i \in 1..k |-> IF i % 2 = 1 THEN L1.h ELSE L2.h]}

\* Assembly(key, ...) with every argument given.
Config(key, universe_id, npins, lats, elevs, spacers, mids, ln, un) ==
    [key |-> key, name |-> <<>>, universe_id |-> universe_id, pitch |-> Pitch,
     npins |-> npins, lattices |-> lats, lattice_elevs |-> elevs,
     spacers |-> spacers, spacer_mids |-> mids,
     lower_nozzle |-> ln, upper_nozzle |-> un, walls |-> <<>>, mod |-> Mod,
     counter |-> TRUE]

\* The assemblies with lattice boundaries B (cm), spacer band boundaries S (cm)
\* and lower nozzle ln, for the universe ids uids.
ConfigsAt(B, S, ln, uids) ==
    { Config("asm", uid, NPins, lats,
             [i \in 1..Cardinality(B) |-> FInt(SortedSeq(B)[i])],
             [i \in 1..(Cardinality(S) \div 2) |-> BandSpacer(SortedSeq(S), i)],
             [i \in 1..(Cardinality(S) \div 2) |->
                 FDiv(FInt(SortedSeq(S)[2 * i - 1] + SortedSeq(S)[2 * i]), Two)],
             ln, un)
      : lats \in LatticeSeqs(Cardinality(B) - 1), un \in UpperNozzles, uid \in uids }

\* The assemblies with lower nozzle ln.
ConfigsOn(ln, uids) ==
    UNION { UNION { ConfigsAt(B, S, ln, uids) : S \in BandSets(Min(B), Max(B)) }
            : B \in UNION { BoundarySets(e0) : e0 \in Bottoms(ln) } }

\* The assemblies over the elevation grid, for the universe ids uids.
Configs(uids) == UNION { ConfigsOn(ln, uids) : ln \in LowerNozzles }

\* One lattice of 17 x 17 pins spanning [0, 400] cm: no spacer grids, no nozzles.
ExampleConfig ==
    Config("example", 0, 17, <<L17.h>>, <<FZero, FInt(400)>>, <<>>, <<>>, None, None)

\* One lattice over [0, 0.3] cm with a spacer grid 0.2 cm high about 0.2 cm:
\* the grid's top, 0.2 + 0.1, is the float next above 0.3.
NoisyConfig ==
    Config("noisy", 0, NPins, <<L1.h>>, <<FZero, Dec(3, 1)>>,
           <<SpacerGrid("g1", Dec(2, 1), Iron, Dec(1, 1))>>, <<Dec(2, 1)>>, None, None)

\* Calls of build and test_prebuild in one behaviour.
MaxBuilds == 2

\* The Assembly a method is called on: a new Assembly(**c), c in configs, when
\* none was made yet, else the one that was.  config is what it was made with,
\* made the universes its calls of build returned.
Receivers(configs) ==
    IF asm = NoAssembly
    THEN {[config |-> c, self |-> NewAssembly(c), made |-> {}] : c \in configs}
    ELSE {[config |-> asm.config, self |-> asm.self, made |-> asm.made]}

\* a.build(); asm is the Assembly object afterwards, with the error build
\* raised, if any.
BuildOp(configs) ==
    \E a \in Receivers(configs) :
        \E b \in {build(World, a.self)} :
            /\ SetWorld(b.w)
            /\ asm' = [config |-> a.config,
                       made   |-> a.made \cup (IF b.err = "ok" THEN {b.self.assembly}
                                               ELSE {})] @@ b
            /\ ret' = [op |-> "build", err |-> b.err,
                       result |-> IF b.err = "ok" THEN b.self.assembly ELSE 0]
            /\ nops' = nops + 1
            /\ UNCHANGED <<surflist, griddict, group>>

\* a.test_prebuild(): __prebuild alone.
TestPrebuildOp(configs) ==
    \E a \in Receivers(configs) :
        \E b \in {test_prebuild(World, a.self)} :
            /\ SetWorld(b.w)
            /\ asm' = [config |-> a.config, made |-> a.made] @@ b
            /\ ret' = [op |-> "test_prebuild", err |-> b.err, result |-> 0]
            /\ nops' = nops + 1
            /\ UNCHANGED <<surflist, griddict, group>>

\* The last call on the Assembly a was build, and it returned.
Built(a) == a # NoAssembly /\ a.stage = "build" /\ a.err = "ok"

InitBuild == InitWith(Checker(NPins), Uniform(NPins, PinB), TRUE)

BuildConfigs == Configs({0}) \cup {ExampleConfig, NoisyConfig}

NextBuild ==
    /\ nops < MaxBuilds
    /\ \/ BuildOp(BuildConfigs)
       \/ TestPrebuildOp(BuildConfigs)

SpecBuild == InitBuild /\ [][NextBuild]_vars

----------------------------------------------------------------------------
(* Every operation on one shared Counter *)

\* Calls in one behaviour of Spec.
MaxOps == 2

\* One lattice over [0, 3] cm, bare or with two spacer grids, built with no
\* universe id, with the id of an existing universe, or with the id the Counter
\* will issue next.
SmallConfigs ==
    UNION { ConfigsAt({0, 3}, S, None, {0, universes[PinA.h].id, counter.universe})
            : S \in {{}, 0..3} }

Init == InitWith(Checker(NPins), Uniform(NPins, PinB), FALSE)

Next ==
    /\ nops < MaxOps
    /\ \/ GetPlaneOp({"x", "y"}, {FInt(1), Dec(1000001, 6)}, {DefaultEps})
       \/ DuplicateOp
       \/ AddSpacerOp
       \/ AddGridOp
       \/ BuildOp(SmallConfigs)
       \/ TestPrebuildOp(SmallConfigs)

Spec == Init /\ [][Next]_vars

----------------------------------------------------------------------------
(* Claims about get_plane, under SpecPlane *)

\* C1: for every orientation d, precision eps and coordinates c1, c2 that round
\* to the same value at eps places (c1 = c2 included), get_plane(cache, d, c1)
\* followed by get_plane(cache, d, c2) on the same cache returns the identical
\* surface both times.
C1_SamePlaneWithinEps ==
    [][ ( /\ ret.op = "get_plane"
          /\ ret'.op = "get_plane"
          /\ PlaneKind(ret.dim) # "none"
          /\ PlaneKind(ret'.dim) = PlaneKind(ret.dim)
          /\ ret'.eps = ret.eps
          /\ Round(ret'.val, ret.eps) = Round(ret.val, ret.eps) )
        => (ret'.err = "ok" /\ ret'.result = ret.result) ]_vars

\* The case of C1: two successive requests of 1.000001 cm at eps = 5 on the
\* same orientation.
C1_Witness ==
    /\ nops = 2
    /\ ret.op = "get_plane" /\ ret.val = Dec(1000001, 6) /\ ret.eps = DefaultEps
    /\ Len(surflist) = 2
    /\ surfaces[surflist[1]].kind = surfaces[surflist[2]].kind
    /\ surfaces[surflist[1]].c0 = Dec(1000001, 6)
    /\ surfaces[surflist[2]].c0 = Dec(1000001, 6)

\* Whether the surface list holds a plane of dim's class whose coordinate,
\* rounded to eps places, is val.
HasMatch(dim, val, eps) ==
    \E i \in DOMAIN surflist :
        /\ surfaces[surflist[i]].kind = PlaneKind(dim)
        /\ Round(surfaces[surflist[i]].c0, eps) = val

\* C2: a get_plane call, for a dim that names an orientation, that finds a
\* matching plane returns it and leaves the surface list, the surface heap and
\* every count of the allocator unchanged; a call that finds none appends
\* exactly one new surface of the requested orientation to the end of the
\* list, takes exactly one surface id and no id of another kind, and returns
\* that new surface.  The surface returned is always of the requested
\* orientation.
C2_GetPlaneEffect ==
    [][ (ret'.op = "get_plane" /\ PlaneKind(ret'.dim) # "none") =>
        LET r == ret'.result
        IN  /\ ret'.err = "ok"
            /\ surfaces'[r].kind = PlaneKind(ret'.dim)
            /\ IF HasMatch(ret'.dim, ret'.val, ret'.eps)
               THEN /\ r \in Range(surflist)
                    /\ Round(surfaces[r].c0, ret'.eps) = ret'.val
                    /\ surflist' = surflist
                    /\ surfaces' = surfaces
                    /\ counter' = counter
               ELSE /\ r = Len(surfaces) + 1
                    /\ surfaces' = Append(surfaces, surfaces'[r])
                    /\ surflist' = Append(surflist, r)
                    /\ surfaces'[r].c0 = ret'.val
                    /\ surfaces'[r].id = counter.surface
                    /\ counter' = [counter EXCEPT !.surface = @ + 1]
            /\ UNCHANGED <<cells, universes, lattices, materials>> ]_vars

\* The case of C2: the third call found the first plane of the list while a
\* plane of another orientation with the same coordinate is in the list too.
C2_Witness ==
    /\ nops = 3
    /\ ret.op = "get_plane" /\ ret.err = "ok"
    /\ Len(surflist) = 2
    /\ ret.result = surflist[1]
    /\ surfaces[surflist[2]].kind # surfaces[surflist[1]].kind
    /\ surfaces[surflist[2]].c0 = surfaces[surflist[1]].c0

----------------------------------------------------------------------------
(* Claims about ids, under Spec *)

\* The universes and lattices of world w, but for the universes X: both draw
\* their ids from the allocator's "universe" kind.
UniverseLike(w, X) ==
    {<<"universes", i>> : i \in DOMAIN w.universes \ X}
    \cup {<<"lattices", i>> : i \in DOMAIN w.lattices}

IdsOf(heap) == {heap[i].id : i \in DOMAIN heap}

Injective(heap) == \A i, j \in DOMAIN heap : i # j => heap[i].id # heap[j].id

\* No two distinct entities of one kind carry the same id, the universes X aside.
IdsUnique(w, X) ==
    /\ Injective(w.surfaces)
    /\ Injective(w.cells)
    /\ Injective(w.materials)
    /\ \A e, f \in UniverseLike(w, X) : e # f => w[e[1]][e[2]].id # w[f[1]][f[2]].id

\* The ids in use for kind t in world w, the universes X aside.
IdsInUse(w, t, X) ==
    IF t = "universe" THEN {w[e[1]][e[2]].id : e \in UniverseLike(w, X)}
    ELSE IdsOf(w[HeapOf(t)])

\* The call r of duplicate took world w0 to w1: the copy is a new object whose
\* id is the allocator's next id of the kind, in use by no entity of the kind
\* (the universes X aside), and the original keeps its id.
DuplicateIsFresh(w0, w1, r, X) ==
    LET heap == HeapOf(r.orig.t)
    IN  /\ r.result.h = Len(w0[heap]) + 1
        /\ w1[heap][r.result.h].id = w0.counter[r.orig.t]
        /\ w1[heap][r.result.h].id \notin IdsInUse(w0, r.orig.t, X)
        /\ w1[heap][r.orig.h].id = w0[heap][r.orig.h].id

\* The universes an Assembly was built into under a universe_id its caller chose.
CallerIdUniverses(a) ==
    IF a # NoAssembly /\ a.config.universe_id # 0 THEN a.made ELSE {}

\* C3, as stated: after any sequence of get_plane, duplicate, add_spacer_to,
\* add_grid_to and build calls on one Counter, no two distinct entities of one
\* kind carry the same id, and duplicate returns a copy with an id not issued
\* before while the original keeps its id.
C3_IdsUnique ==
    /\ IdsUnique(World, {})
    /\ [][ /\ IdsUnique(World', {})
           /\ (ret'.op = "duplicate" /\ ret'.err = "ok")
                 => DuplicateIsFresh(World, World', ret', {}) ]_vars

\* C3, amended: the same holds of every entity whose id the Counter issued; the
\* universe of an Assembly built with a universe_id of the caller's choosing
\* carries that id whether or not it is, or will be, in use.
C3_IssuedIdsUnique ==
    /\ IdsUnique(World, CallerIdUniverses(asm))
    /\ [][ /\ IdsUnique(World', CallerIdUniverses(asm'))
           /\ (ret'.op = "duplicate" /\ ret'.err = "ok")
                 => DuplicateIsFresh(World, World', ret', CallerIdUniverses(asm)) ]_vars

\* The case of C3: an Assembly with spacer grids was built, which took ids of
\* every kind but materials, and its universe was then duplicated.
C3_Witness ==
    /\ nops = 2
    /\ Built(asm)
    /\ asm.config.universe_id = 0
    /\ \E k \in DOMAIN asm.log : asm.log[k].generated
    /\ ret.op = "duplicate" /\ ret.err = "ok"
    /\ ret.orig = UnivRef(asm.self.assembly)

----------------------------------------------------------------------------
(* Claims about add_grid_to, under SpecGrid *)

\* C4: add_grid_to memoizes per original pin cell id: positions of the input
\* lattice that hold the same pin cell id hold the identical gridded universe
\* in the result; add_spacer_to is called once for an id that was not in the
\* memo and not at all for one that was; afterwards the memo has an entry for
\* every id of the lattice, and the entries it had before are unchanged.
C4_MemoizedPerPin ==
    (ret.op = "add_grid_to" /\ ret.err = "ok") =>
        LET inp == lattices[ret.lattice.h].universes
            out == lattices[ret.result.h].universes
            Pos == (1..NPins) \X (1..NPins)
            IdAt(p) == universes[inp[p[1]][p[2]]].id
        IN  /\ \A p, q \in Pos : IdAt(p) = IdAt(q) => out[p[1]][p[2]] = out[q[1]][q[2]]
            /\ \A p \in Pos :
                  /\ IdAt(p) \in DOMAIN griddict
                  /\ Cardinality({k \in DOMAIN ret.called : ret.called[k] = IdAt(p)})
                        = IF IdAt(p) \in DOMAIN ret.memo0 THEN 0 ELSE 1
            /\ \A k \in DOMAIN ret.memo0 : griddict[k] = ret.memo0[k]

\* C5: the universe at every position (j, i) of the lattice add_grid_to returns
\* is the memo's entry for the universe at (j, i) of the input lattice, also
\* when the rows of the input differ.
C5_PositionWise ==
    (ret.op = "add_grid_to" /\ ret.err = "ok") =>
        \A j, i \in 1..NPins :
            lattices[ret.result.h].universes[j][i]
                = griddict[universes[lattices[ret.lattice.h].universes[j][i]].id]

----------------------------------------------------------------------------
(* Claims about Assembly.build, under SpecBuild *)

\* The last call was build, and its loop over all_elevs ran to its end.
LayersDone ==
    asm # NoAssembly /\ asm.stage = "build" /\ asm.err \in {"ok", "UnboundLocalError"}

\* The segments m (counted from 1) with elevs[m] < z <= elevs[m+1].
Segment(elevs, z) ==
    {m \in 1..(Len(elevs) - 1) : FLt(elevs[m], z) /\ FLe(z, elevs[m + 1])}

\* C6: every layer whose upper bound z satisfies e_m < z <= e_(m+1) is filled
\* with lattice m or with its gridded variant, the topmost segment included.
C6_LayerLattice ==
    LayersDone =>
        \A k \in DOMAIN asm.log :
            \A m \in Segment(asm.config.lattice_elevs, asm.log[k].z) :
                LET want == asm.config.lattices[m]
                    fill == cells[asm.log[k].cell].fill
                    gl   == asm.self.gridded_lattices
                IN  \/ fill = LatRef(want)
                    \/ /\ lattices[want].id \in DOMAIN gl
                       /\ fill = LatRef(gl[lattices[want].id])

\* Whether the slab from lo to hi lies within a spacer band of configuration c.
InBand(c, lo, hi) ==
    \E i \in DOMAIN c.spacers :
        /\ FLe(FSub(c.spacer_mids[i], FDiv(c.spacers[i].height, Two)), lo)
        /\ FLe(hi, FAdd(c.spacer_mids[i], FDiv(c.spacers[i].height, Two)))

\* C7: a layer is filled with a gridded lattice if and only if it lies between
\* the bottom and the top of a spacer band; every layer outside all bands is
\* filled with an original lattice.  This holds for any number of spacer grids,
\* a single one included.
C7_GriddedIffInBand ==
    LayersDone =>
        \A k \in DOMAIN asm.log :
            LET e == asm.log[k]
            IN  (cells[e.cell].fill.h \notin Range(asm.config.lattices))
                    <=> InBand(asm.config, surfaces[e.lower].c0, surfaces[e.upper].c0)

\* C8: within one build add_grid_to is called at most once per original
\* lattice: the first gridded layer of a lattice generates the gridded lattice
\* and stores it under the lattice's id; every later gridded layer of that
\* lattice is filled with the stored lattice and takes no id but its own
\* cell's and at most its own plane's.
C8_GridOncePerLattice ==
    LayersDone =>
        \A k \in DOMAIN asm.log :
            LET e       == asm.log[k]
                gl      == asm.self.gridded_lattices
                earlier == {j \in 1..(k - 1) : /\ asm.log[j].lat = e.lat
                                               /\ asm.log[j].grid # 0}
            IN  e.grid # 0 =>
                  /\ e.generated <=> earlier = {}
                  /\ lattices[e.lat].id \in DOMAIN gl
                  /\ cells[e.cell].fill = LatRef(gl[lattices[e.lat].id])
                  /\ \A j \in earlier :
                        cells[asm.log[j].cell].fill = cells[e.cell].fill
                  /\ earlier # {} =>
                        /\ e.counter.universe = asm.log[k - 1].counter.universe
                        /\ e.counter.material = asm.log[k - 1].counter.material
                        /\ e.counter.cell = asm.log[k - 1].counter.cell + 1
                        /\ e.counter.surface \in {asm.log[k - 1].counter.surface,
                                                  asm.log[k - 1].counter.surface + 1}

\* The case of C8: two gridded layers of one lattice in one build, the later
\* one filled from the table.
C8_Witness ==
    /\ Built(asm)
    /\ \E j, k \in DOMAIN asm.log :
          /\ j < k
          /\ asm.log[j].lat = asm.log[k].lat
          /\ asm.log[j].grid # 0 /\ asm.log[k].grid # 0
          /\ asm.log[j].generated /\ ~asm.log[k].generated

\* The signed half-spaces of the assembly's wall region.
WallHalves(a) ==
    {<<1, a.self.walls[1]>>, <<-1, a.self.walls[2]>>,
     <<1, a.self.walls[3]>>, <<-1, a.self.walls[4]>>}

\* Whether surface s is the plane of the given class at coordinate c.
IsPlane(s, kind, c) == surfaces[s].kind = kind /\ surfaces[s].c0 = c

\* Whether region r is built of half-spaces by intersection alone.
RECURSIVE Conjunction(_)
Conjunction(r) ==
    \/ r.op = "half"
    \/ r.op = "and" /\ \A i \in DOMAIN r.args : Conjunction(r.args[i])

\* Whether region r is the wall region cut to the slab above plane lo and
\* below plane hi.
IsSlab(a, r, lo, hi) ==
    /\ r.op = "and"
    /\ Conjunction(r)
    /\ HalfSpaces(r) = WallHalves(a) \cup {<<1, lo>>, <<-1, hi>>}

\* The plane below the k-th layer: the upper plane of the layer before it; for
\* the first layer the top of the lower nozzle's cell, or surf0.
PlaneBelow(a, k) ==
    IF k > 1 THEN a.log[k - 1].upper
    ELSE IF a.config.lower_nozzle = None THEN a.surf0
    ELSE CHOOSE s \in DOMAIN surfaces : <<-1, s>> \in HalfSpaces(cells[a.lnoz].region)
                                        /\ surfaces[s].kind = "ZPlane"

\* C9: build makes one axial cell per consecutive pair of all_elevs, in
\* ascending order; each is the wall region cut to the slab between the plane
\* before it (z = 0, or the lower nozzle's top, for the first) and the plane at
\* its own upper elevation, so that consecutive layers share a plane.  One
\* lattice over [0, 400] cm with no spacer grids and no nozzles gives a universe
\* of exactly one axial cell, bounded by z = 0, z = 400 and the four walls,
\* and one moderator cell.
C9_OneCellPerPair ==
    LayersDone =>
        LET off  == IF asm.config.lower_nozzle = None THEN 0 ELSE 1
            half == FDiv(FMul(asm.config.pitch, FInt(asm.config.npins)), Two)
        IN  /\ Len(asm.log) = Len(asm.self.all_elevs) - 1
            /\ IsPlane(asm.self.walls[1], "XPlane", FNeg(half))
            /\ IsPlane(asm.self.walls[2], "XPlane", half)
            /\ IsPlane(asm.self.walls[3], "YPlane", FNeg(half))
            /\ IsPlane(asm.self.walls[4], "YPlane", half)
            /\ \A k \in DOMAIN asm.log :
                  LET e == asm.log[k]
                  IN  /\ e.z = asm.self.all_elevs[k + 1]
                      /\ FLt(asm.self.all_elevs[k], e.z)
                      /\ asm.self.openmc_cells[k + off] = e.cell
                      /\ IsSlab(asm, cells[e.cell].region, PlaneBelow(asm, k), e.upper)
                      /\ IsPlane(e.upper, "ZPlane", e.z)
                      /\ IsPlane(PlaneBelow(asm, k), "ZPlane",
                                 IF k > 1 THEN asm.log[k - 1].z
                                 ELSE IF off = 0 THEN FZero
                                 ELSE asm.config.lower_nozzle.height)
            /\ asm.config = ExampleConfig =>
                  /\ asm.err = "ok"
                  /\ Len(asm.log) = 1
                  /\ universes[asm.self.assembly].cells = <<asm.log[1].cell, asm.mod_cell>>
                  /\ IsPlane(PlaneBelow(asm, 1), "ZPlane", FZero)
                  /\ IsPlane(asm.log[1].upper, "ZPlane", FInt(400))

\* Points off every plane: on the axis or outside the walls, half a
\* centimetre above each whole centimetre from below 0 to above the stack, and
\* at 0.05 and 0.2 cm.
SamplePoints ==
    {[x |-> x, y |-> FZero, z |-> z] :
        x \in {FZero, FMul(FInt(20), Pitch)},
        z \in {Dec(10 * k + 5, 1) : k \in (-1..(MaxElev + 3)) \cup {399, 400}}
              \cup {Dec(5, 2), Dec(2, 1)}}

\* C10: in the universe build returns the cells do not overlap and leave no
\* gap: every point is in exactly one cell, and the moderator cell holds
\* exactly the points outside the walls, below z = 0 or above the top of the
\* stack (the top of the upper nozzle, when there is one).
C10_Tiling ==
    Built(asm) =>
        LET U    == universes[asm.self.assembly].cells
            un   == asm.config.upper_nozzle
            top  == IF un = None THEN FMax(Range(asm.config.lattice_elevs))
                    ELSE FAdd(FMax(Range(asm.config.lattice_elevs)), un.height)
            half == FDiv(FMul(asm.config.pitch, FInt(asm.config.npins)), Two)
            Inside(pt) == /\ FLt(FNeg(half), pt.x) /\ FLt(pt.x, half)
                          /\ FLt(FNeg(half), pt.y) /\ FLt(pt.y, half)
                          /\ FLt(FZero, pt.z) /\ FLt(pt.z, top)
        IN  \A pt \in SamplePoints :
              /\ Cardinality({k \in DOMAIN U :
                                 InRegion(surfaces, cells[U[k]].region, pt)}) = 1
              /\ Inside(pt) <=> ~InRegion(surfaces, cells[asm.mod_cell].region, pt)

\* C11: when an upper nozzle is given, build (with or without a lower nozzle)
\* succeeds and appends, right after the last layer's cell, one cell filled with
\* the upper nozzle's material whose region is the wall region cut to the slab
\* from max(lattice_elevs) to max(lattice_elevs) + the nozzle's height; the
\* lower nozzle's cell is not appended a second time.
C11_UpperNozzle ==
    (asm # NoAssembly /\ asm.stage = "build" /\ asm.config.upper_nozzle # None) =>
        /\ asm.err = "ok"
        /\ LET cs  == asm.self.openmc_cells
               off == IF asm.config.lower_nozzle = None THEN 0 ELSE 1
               n   == Len(asm.log)
               top == FMax(Range(asm.config.lattice_elevs))
               un  == asm.config.upper_nozzle
           IN  /\ Len(cs) = off + n + 2
               /\ cells[cs[off + n + 1]].fill = un.material
               /\ \E lo, hi \in DOMAIN surfaces :
                     /\ IsPlane(lo, "ZPlane", top)
                     /\ IsPlane(hi, "ZPlane", FAdd(top, un.height))
                     /\ IsSlab(asm, cells[cs[off + n + 1]].region, lo, hi)
               /\ \A i, j \in DOMAIN cs : i # j => cs[i] # cs[j]

----------------------------------------------------------------------------
(* Assemblies with parameters unset, lists of the wrong length or elevations
   out of order; claims about Assembly.__prebuild, under SpecValidate *)

\* Lattice elevations: none, [0, 2], [1, 2], [0, 1, 2], [0, 2, 1] and [0, 1, 1] cm.
ElevChoices ==
    {<<>>, <<FZero, FInt(2)>>, <<FInt(1), FInt(2)>>, <<FZero, FInt(1), FInt(2)>>,
     <<FZero, FInt(2), FInt(1)>>, <<FZero, FInt(1), FInt(1)>>}

\* One spacer grid 1 cm high, for the band from 1 to 2 cm.
SpacerChoices == {<<>>, <<SpacerGrid("g1", FInt(1), Iron, Dec(1, 1))>>}
MidChoices    == {<<>>, <<Dec(15, 1)>>}

\* Assembly(...) with each parameter given or left at its default.
ValidationConfigs ==
    { [key |-> k, name |-> <<>>, universe_id |-> 0, pitch |-> p, npins |-> n,
       lattices |-> ls, lattice_elevs |-> es, spacers |-> sp, spacer_mids |-> sm,
       lower_nozzle |-> ln, upper_nozzle |-> None, walls |-> <<>>, mod |-> m,
       counter |-> c]
      : k \in {"", "asm"}, p \in {FZero, Pitch}, n \in {0, NPins},
        ls \in {<<>>, <<L1.h>>, <<L1.h, L2.h>>}, es \in ElevChoices,
        sp \in SpacerChoices, sm \in MidChoices,
        ln \in LowerNozzles, m \in {None, Mod}, c \in BOOLEAN }

NextValidate ==
    /\ nops < MaxBuilds
    /\ \/ BuildOp(ValidationConfigs)
       \/ TestPrebuildOp(ValidationConfigs)

SpecValidate == InitBuild /\ [][NextValidate]_vars

\* Whether the call of build left every heap and the Counter as they were.
NothingCreated ==
    /\ counter = asm.counter0
    /\ Len(surfaces) = Len(InitWorld(Checker(NPins), Uniform(NPins, PinB), TRUE).surfaces)
    /\ Len(cells) = Len(InitWorld(Checker(NPins), Uniform(NPins, PinB), TRUE).cells)
    /\ Len(universes) = Len(InitWorld(Checker(NPins), Uniform(NPins, PinB), TRUE).universes)
    /\ Len(lattices) = Len(InitWorld(Checker(NPins), Uniform(NPins, PinB), TRUE).lattices)

\* The errors __prebuild raises on purpose: the TypeError that lists the
\* parameters to set, and the failed assert on the lengths of the lists.
ValidationErrors == {"TypeError", "AssertionError"}

\* C12: whenever len(lattice_elevs) # len(lattices) + 1 or len(spacer_mids) #
\* len(spacers), build fails with a validation error, having created no
\* surface, cell or universe and taken no id.
C12_LengthMismatch ==
    ( /\ asm # NoAssembly
      /\ \/ Len(asm.config.lattice_elevs) # Len(asm.config.lattices) + 1
         \/ Len(asm.config.spacer_mids) # Len(asm.config.spacers) )
    => (asm.err \in ValidationErrors /\ NothingCreated)

\* The parameters build cannot do without; blank as the caller left them.
RequiredParams == {"key", "pitch", "npins", "lattices", "lattice_elevs", "mod", "counter"}

OptionalParams == {"universe_id", "spacers", "spacer_mids", "upper_nozzle", "walls"}

\* The required parameters that configuration c leaves unset: lower_nozzle is
\* required when the lowest lattice elevation is not 0.
UnsetRequired(c) ==
    {a \in RequiredParams : Falsy(c, a)}
    \cup (IF /\ c.lower_nozzle = None
             /\ c.lattice_elevs # <<>>
             /\ FMin(Range(c.lattice_elevs)) # FZero
          THEN {"lower_nozzle"} ELSE {})

\* C13: whenever a required parameter is unset, build fails with the one
\* validation error (TypeError) whose message lists every unset required
\* parameter, also when lattice_elevs is the unset one, and lists none of the
\* optional parameters.
C13_MissingListed ==
    (asm # NoAssembly /\ UnsetRequired(asm.config) # {}) =>
        /\ asm.err = "TypeError"
        /\ UnsetRequired(asm.config) \subseteq Range(asm.missing)
        /\ Range(asm.missing) \cap OptionalParams = {}

\* __prebuild returned: none of its errors was raised.
Prebuilt == asm # NoAssembly /\ asm.err \notin (ValidationErrors \cup {"ValueError"})

\* The bottom and the top of every spacer grid of configuration c.
BandElevs(c) ==
    UNION { {FSub(c.spacer_mids[i], FDiv(c.spacers[i].height, Two)),
             FAdd(c.spacer_mids[i], FDiv(c.spacers[i].height, Two))} : i \in DOMAIN c.spacers }

\* C14: after __prebuild all_elevs is strictly increasing, and its values are
\* those of lattice_elevs together with the bottom and top of every spacer
\* grid, with spacer grids and without.
C14_AllElevsMerged ==
    Prebuilt =>
        /\ \A i \in 1..(Len(asm.self.all_elevs) - 1) :
              FLt(asm.self.all_elevs[i], asm.self.all_elevs[i + 1])
        /\ Range(asm.self.all_elevs)
              = Range(asm.config.lattice_elevs) \cup BandElevs(asm.config)

----------------------------------------------------------------------------
(* Pin cells of concentric rings; claims about add_spacer_to, under SpecSpacer *)

\* Ring radii of a pin cell, innermost first: 0.3; 0.5; 0.3, 0.4; 0.3, 0.5 cm.
RadiiChoices ==
    { <<Dec(3, 1)>>, <<Dec(5, 1)>>, <<Dec(3, 1), Dec(4, 1)>>, <<Dec(3, 1), Dec(5, 1)>> }

\* The region of the k-th of the concentric cells around cylinders 1..m: inside
\* the first, between two neighbours, or (k = m + 1) outside the last.
RingRegion(k, m) ==
    IF k = 1 THEN Half(-1, 1)
    ELSE IF k = m + 1 THEN Half(1, m)
    ELSE And(<<Half(1, k - 1), Half(-1, k)>>)

\* A world of one pin cell universe: its cylinders, its cells (rings of iron,
\* then the moderator outside; with rings = FALSE the moderator alone), the
\* three materials, and the Counter that issued their ids.
PinWorld(radii, rings) ==
    LET m     == Len(radii)
        first == IF rings THEN 1 ELSE m + 1
        ncell == m + 2 - first
    IN  [materials |-> InitWorld(<<>>, <<>>, FALSE).materials,
         surfaces  |-> [k \in 1..m |-> [id |-> FirstId + k - 1, kind |-> "ZCylinder",
                                        c0 |-> radii[k], bc |-> "transmission",
                                        name |-> <<>>]],
         cells     |-> [k \in 1..ncell |->
                          Cell(FirstId + k - 1,
                               IF k = ncell THEN <<"outer">> ELSE <<"ring">>,
                               RingRegion(first + k - 1, m),
                               IF k = ncell THEN Mod ELSE Iron)],
         universes |-> << [id |-> FirstId, name |-> <<"pin">>,
                           cells |-> [k \in 1..ncell |-> k]] >>,
         lattices  |-> <<>>,
         counter   |-> [surface |-> FirstId + m, cell |-> FirstId + ncell,
                        material |-> FirstId + 3, universe |-> FirstId + 1]]

\* add_spacer_to(pincell, Pitch, t, material, counter, surflist)
AddSpacerCall(pincells, ts, mats) ==
    \E pincell \in pincells, t \in ts, material \in mats :
        \E a \in {add_spacer_to(World, surflist, pincell, Pitch, t, material)} :
            /\ SetWorld(a.w)
            /\ surflist' = a.sl
            /\ ret' = [op |-> "add_spacer_to", pincell |-> pincell, t |-> t,
                       material |-> material, result |-> a.ret, err |-> a.err]
            /\ nops' = nops + 1
            /\ UNCHANGED <<griddict, asm, group>>

\* Calls in one behaviour of SpecSpacer.
MaxSpacerCalls == 2

InitSpacer ==
    \E radii \in RadiiChoices, rings \in BOOLEAN :
        \E w \in {PinWorld(radii, rings)} :
            /\ counter = w.counter
            /\ surfaces = w.surfaces
            /\ cells = w.cells
            /\ universes = w.universes
            /\ lattices = w.lattices
            /\ materials = w.materials
            /\ surflist = <<>>
            /\ griddict = <<>>
            /\ asm = NoAssembly
            /\ ret = NoCall
            /\ nops = 0
            /\ group = NoGroup

\* The pin cell is any universe made so far, or a Cell; the material is a
\* Material, or a Universe; the thickness is 0.1 or 0.2 cm.
NextSpacer ==
    /\ nops < MaxSpacerCalls
    /\ AddSpacerCall({UnivRef(h) : h \in DOMAIN universes} \cup {CellRef(1)},
                     {Dec(1, 1), Dec(2, 1)},
                     {Iron, UnivRef(1)})

SpecSpacer == InitSpacer /\ [][NextSpacer]_vars

\* C15: for a pin cell universe of n >= 1 cells add_spacer_to returns a new
\* universe with the next universe id and exactly n + 1 cells: the first n - 1
\* original cells themselves, in order and unchanged; then a new cell with the
\* next cell id that copies the original last cell (name and fill); then a new
\* cell with the cell id after that, filled with the spacer's material.  The
\* original last cell is no member of the result, and the original universe
\* and its cells are left as they were.
C15_SpacerUniverseCells ==
    [][ (ret'.op = "add_spacer_to" /\ ret'.err = "ok") =>
        LET orig == universes[ret'.pincell.h].cells
            n    == Len(orig)
            new  == universes'[ret'.result.h]
        IN  /\ n >= 1
            /\ ret'.result = UnivRef(Len(universes) + 1)
            /\ new.id = counter.universe
            /\ Len(new.cells) = n + 1
            /\ \A k \in 1..(n - 1) : new.cells[k] = orig[k]
            /\ new.cells[n] = Len(cells) + 1
            /\ new.cells[n + 1] = Len(cells) + 2
            /\ cells'[new.cells[n]].id = counter.cell
            /\ cells'[new.cells[n]].name = cells[orig[n]].name
            /\ cells'[new.cells[n]].fill = cells[orig[n]].fill
            /\ cells'[new.cells[n + 1]].id = counter.cell + 1
            /\ cells'[new.cells[n + 1]].fill = ret'.material
            /\ orig[n] \notin Range(new.cells)
            /\ \A k \in DOMAIN cells : cells'[k] = cells[k]
            /\ \A k \in DOMAIN universes : universes'[k] = universes[k]
            /\ counter' = [counter EXCEPT !.cell = @ + 2, !.universe = @ + 1,
                                          !.surface = counter'.surface] ]_vars

\* The case of C15: the spacer added to a pin cell of three cells, and to a pin
\* cell of the moderator cell alone.
C15_Witness ==
    /\ ret.op = "add_spacer_to" /\ ret.err = "ok"
    /\ Len(universes[ret.pincell.h].cells) \in {1, 3}
    /\ Len(universes[ret.result.h].cells) = Len(universes[ret.pincell.h].cells) + 1

\* Points of the plane z = 0 on a grid of 0.1 cm, shifted by 0.01 cm, reaching
\* beyond the pin cell's square on every side.
PinPoints ==
    {[x |-> Dec(10 * i + 1, 2), y |-> Dec(10 * j + 1, 2), z |-> FZero] :
        i \in -7..7, j \in -7..7}

\* Whether the point lies on none of the surfaces.
OffSurfaces(pt) ==
    \A s \in DOMAIN surfaces : Evaluate(surfaces[s], pt) # FZero

\* C16: in the universe add_spacer_to returns for a pin cell of concentric
\* cells, the last of them the moderator, and a thickness 0 < t < pitch/2, the
\* spacer cell and the cut-down moderator cell are disjoint, together they are
\* the original outer cell's region within the square |x|, |y| <= pitch/2, and
\* neither overlaps a cell of the inner rings (point by point over PinPoints).
C16_SpacerTiles ==
    (ret.op = "add_spacer_to" /\ ret.err = "ok" /\ ret.pincell = UnivRef(1)) =>
        LET orig   == universes[ret.pincell.h].cells
            n      == Len(orig)
            new    == universes[ret.result.h].cells
            In(c, pt)  == InRegion(surfaces, cells[c].region, pt)
            Square(pt) == /\ FLt(FNeg(FDiv(Pitch, Two)), pt.x) /\ FLt(pt.x, FDiv(Pitch, Two))
                          /\ FLt(FNeg(FDiv(Pitch, Two)), pt.y) /\ FLt(pt.y, FDiv(Pitch, Two))
        IN  \A pt \in PinPoints :
                OffSurfaces(pt) =>
                    /\ ~(In(new[n], pt) /\ In(new[n + 1], pt))
                    /\ (In(new[n], pt) \/ In(new[n + 1], pt))
                          <=> (In(orig[n], pt) /\ Square(pt))
                    /\ \A k \in 1..(n - 1) :
                          ~(In(orig[k], pt) /\ (In(new[n], pt) \/ In(new[n + 1], pt)))


\* C17: a call of add_spacer_to whose first argument is no Universe, or whose
\* material is no Material, fails on the type check (an AssertionError naming
\* the offending value and the expected class) and leaves everything as it
\* was: no plane is added to the surface list, no id is taken from the counter,
\* no cell or universe is created.
C17_TypeCheckedFirst ==
    [][ ( /\ ret'.op = "add_spacer_to"
          /\ nops' = nops + 1
          /\ (ret'.pincell.t # "universe" \/ ret'.material.t # "material") ) =>
        /\ ret'.err = "AssertionError"
        /\ ret'.result = None
        /\ surflist' = surflist
        /\ counter' = counter
        /\ surfaces' = surfaces
        /\ cells' = cells
        /\ universes' = universes
        /\ materials' = materials ]_vars

\* The case of C17: a call with a Universe and a fill that is no Material has
\* failed, and one with a Cell in the Universe's place has.
C17_Witness ==
    /\ ret.op = "add_spacer_to"
    /\ ret.err = "AssertionError"
    /\ \/ ret.pincell.t = "universe" /\ ret.material.t = "universe"
       \/ ret.pincell.t = "cell" /\ ret.material.t = "material"
    /\ surflist = <<>>


----------------------------------------------------------------------------
(* baffle.py: get_openmc_baffle *)

\* Baffle(mat, thick, gap)
Baffle(mat, thick, gap) == [mat |-> mat, thick |-> thick, gap |-> gap]

\* A local name of get_openmc_baffle that nothing was assigned to yet.
Unbound == [op |-> "unbound", side |-> 0, s |-> 0, args |-> <<>>]

\* cmap[j][i], 0-based.
Occupied(cmap, j, i) == PyIndex(PyIndex(cmap, j), i)

\* d0 = pitch / 2.0, d1 = d0 + gap, d2 = d1 + thick, d3 = d0 - gap and
\* width = size * pitch / 2.0 of a core with its baffle.
Distances(core) ==
    Then(FDiv(core.pitch, Two), LAMBDA d0 :
    Then(FAdd(d0, core.baffle.gap), LAMBDA d1 :
         [d0 |-> d0, d1 |-> d1, d2 |-> FAdd(d1, core.baffle.thick),
          d3 |-> FSub(d0, core.baffle.gap),
          width |-> FDiv(FMul(FInt(core.size), core.pitch), Two)]))

\* (k + 0.5) * pitch - width
Along(core, d, k) == FSub(FMul(FAdd(FInt(k), OneHalf), core.pitch), d.width)

\* width - (k + 0.5) * pitch
Down(core, d, k) == FSub(d.width, FMul(FAdd(FInt(k), OneHalf), core.pitch))

\* width - 0.5 * pitch
Outermost(core, d) == FSub(d.width, FMul(OneHalf, core.pitch))

\* The locals of get_openmc_baffle the scan carries from one position to the
\* next: the planes left, right, bot, top (0 when unbound), the four regions
\* north_region .. west_region, and the nodes of master_region; with them the
\* world, the generator's surface list, and the exception raised, if any.
ScanStart(w, sl) ==
    [w |-> w, sl |-> sl, nodes |-> <<>>, err |-> "ok",
     pl  |-> [left |-> 0, right |-> 0, bot |-> 0, top |-> 0],
     reg |-> [north |-> Unbound, south |-> Unbound, east |-> Unbound, west |-> Unbound]]

\* (a, ..), (b, ..) = self.__get_xyz_planes(x0s = .., y0s = ..)[0:2], with
\* targets the sequence of <<local name, dim, coordinate>>, x0s before y0s:
\* each plane is looked up or created in the surface list as get_plane does.
get_xyz_planes(st, requested) ==
    Then(requested, LAMBDA targets :
    Then(GetPlanes(st.w, st.sl,
                   [k \in DOMAIN targets |-> <<targets[k][2], targets[k][3], <<>>>>], 1, <<>>),
         LAMBDA g :
            [st EXCEPT !.w = g.w, !.sl = g.sl,
                       !.pl = [v \in DOMAIN st.pl |->
                                 IF \E k \in DOMAIN targets : targets[k][1] = v
                                 THEN g.planes[CHOOSE k \in DOMAIN targets : targets[k][1] = v]
                                 ELSE st.pl[v]]]))

\* <face>_region = (+left & -right & +bot & -top)
SetRegion(st, face) ==
    [st EXCEPT !.reg[face] = And(<<Half(1, st.pl.left), Half(-1, st.pl.right),
                                   Half(1, st.pl.bot),  Half(-1, st.pl.top)>>)]

\* master_region.nodes.append(<face>_region)
AppendRegion(st, face) ==
    IF st.reg[face] = Unbound
    THEN [st EXCEPT !.err = "UnboundLocalError"]
    ELSE [st EXCEPT !.nodes = Append(@, st.reg[face])]

\* The planes of targets, the face's region from them, and its append.
Plate(st, face, targets) ==
    Then(get_xyz_planes(st, targets), LAMBDA p : AppendRegion(SetRegion(p, face), face))

\* The two plates of an interior position on its exposed west and east faces.
InteriorSides(st, cmap, d, j, i, x, y) ==
    LET north == Occupied(cmap, j - 1, i)
        south == Occupied(cmap, j + 1, i)
        east  == Occupied(cmap, j, i + 1)
        west  == Occupied(cmap, j, i - 1)
        southeast == Occupied(cmap, j + 1, i + 1)
        southwest == Occupied(cmap, j + 1, i - 1)
        y_top  == IF north THEN FAdd(y, d.d3) ELSE FAdd(y, d.d2)
        y_botW == IF south /\ southwest THEN FSub(y, d.d3) ELSE FSub(y, d.d2)
        y_botE == IF south /\ southeast THEN FSub(y, d.d3) ELSE FSub(y, d.d2)
    IN  Then(IF ~west
             THEN Plate(st, "west", << <<"left", "x", FSub(x, d.d2)>>,
                                       <<"right", "x", FSub(x, d.d1)>>,
                                       <<"bot", "y", y_botW>>, <<"top", "y", y_top>> >>)
             ELSE st,
             LAMBDA s1 :
                IF ~east
                THEN Plate(s1, "east", << <<"left", "x", FAdd(x, d.d1)>>,
                                          <<"right", "x", FAdd(x, d.d2)>>,
                                          <<"bot", "y", y_botE>>, <<"top", "y", y_top>> >>)
                ELSE s1)

\* The two plates of an interior position on its exposed north and south faces.
InteriorEnds(st, cmap, d, j, i, x, y) ==
    LET north == Occupied(cmap, j - 1, i)
        south == Occupied(cmap, j + 1, i)
        east  == Occupied(cmap, j, i + 1)
        west  == Occupied(cmap, j, i - 1)
        southwest == Occupied(cmap, j + 1, i - 1)
        northwest == Occupied(cmap, j - 1, i - 1)
        x_leftN == IF west /\ northwest THEN FSub(x, d.d3) ELSE FSub(x, d.d2)
        x_leftS == IF west /\ southwest THEN FSub(x, d.d3) ELSE FSub(x, d.d2)
        x_right == IF east THEN FAdd(x, d.d3) ELSE FAdd(x, d.d2)
    IN  Then(IF ~north
             THEN Plate(st, "north", << <<"left", "x", x_leftN>>, <<"right", "x", x_right>>,
                                        <<"bot", "y", FAdd(y, d.d1)>>,
                                        <<"top", "y", FAdd(y, d.d2)>> >>)
             ELSE st,
             LAMBDA s1 :
                IF ~south
                THEN Plate(s1, "south", << <<"left", "x", x_leftS>>, <<"right", "x", x_right>>,
                                           <<"bot", "y", FSub(y, d.d2)>>,
                                           <<"top", "y", FSub(y, d.d1)>> >>)
                ELSE s1)

\* The body of the inner loop at row j, column i: x = (i + 0.5) * pitch - width
\* and y = width - (j + 0.5) * pitch.
Interior(st, core, d, j, i) ==
    IF ~Occupied(core.cmap, j, i) THEN st
    ELSE Then(Along(core, d, i), LAMBDA x :
         Then(Down(core, d, j), LAMBDA y :
         Then(InteriorSides(st, core.cmap, d, j, i, x, y),
              LAMBDA s : InteriorEnds(s, core.cmap, d, j, i, x, y))))

\* for i in range(1, n), from column i on.
RECURSIVE InteriorRow(_, _, _, _, _)
InteriorRow(st, core, d, j, i) ==
    IF i >= core.size - 1 \/ st.err # "ok" THEN st
    ELSE Then(Interior(st, core, d, j, i), LAMBDA s : InteriorRow(s, core, d, j, i + 1))

\* "West edge" (e = -1, column 0) and "East edge" (e = 1, column n) of row j:
\* the outer plate, then the north plate if the north neighbour is empty, the
\* append of north_region in either case, and the south plate likewise tested.
SideEdge(st, core, d, j, e) ==
    IF ~Occupied(core.cmap, j, IF e < 0 THEN 0 ELSE core.size - 1) THEN st
    ELSE
    Then(Down(core, d, j), LAMBDA y :
    Then(IF e < 0 THEN FNeg(Outermost(core, d)) ELSE Outermost(core, d), LAMBDA xx :
        LET c  == IF e < 0 THEN 0 ELSE core.size - 1
            north == Occupied(core.cmap, j - 1, c)
            south == Occupied(core.cmap, j + 1, c)
            outer == IF e < 0
                     THEN << <<"left", "x", FSub(xx, d.d2)>>, <<"right", "x", FSub(xx, d.d1)>>,
                             <<"bot", "y", FSub(y, d.d2)>>,   <<"top", "y", FAdd(y, d.d2)>> >>
                     ELSE << <<"left", "x", FAdd(xx, d.d1)>>, <<"right", "x", FAdd(xx, d.d2)>>,
                             <<"bot", "y", FSub(y, d.d2)>>,   <<"top", "y", FAdd(y, d.d2)>> >>
            inner == IF e < 0 THEN <<"right", "x", FAdd(xx, d.d3)>>
                     ELSE <<"left", "x", FSub(xx, d.d3)>>
        IN  Then(Plate(st, IF e < 0 THEN "west" ELSE "east", outer), LAMBDA s1 :
            Then(IF ~north
                 THEN SetRegion(get_xyz_planes(s1, <<inner, <<"bot", "y", FAdd(y, d.d1)>> >>),
                                "north")
                 ELSE s1, LAMBDA s2 :
            Then(AppendRegion(s2, "north"), LAMBDA s3 :
                 IF s3.err = "ok" /\ ~south
                 THEN Plate(s3, "south", <<inner, <<"bot", "y", FSub(y, d.d2)>>,
                                                  <<"top", "y", FSub(y, d.d1)>> >>)
                 ELSE s3)))))

\* "North edge" (e = 1, row 0) and "South edge" (e = -1, row n) of column j:
\* the outer plate, then the west and the east plate where that neighbour in
\* the row is empty.
EndEdge(st, core, d, j, e) ==
    IF ~Occupied(core.cmap, IF e > 0 THEN 0 ELSE core.size - 1, j) THEN st
    ELSE
    Then(Along(core, d, j), LAMBDA x :
    Then(IF e > 0 THEN Outermost(core, d) ELSE FNeg(Outermost(core, d)), LAMBDA yy :
        LET r  == IF e > 0 THEN 0 ELSE core.size - 1
            east == Occupied(core.cmap, r, j + 1)
            west == Occupied(core.cmap, r, j - 1)
            outer == IF e > 0
                     THEN << <<"left", "x", FSub(x, d.d2)>>, <<"right", "x", FAdd(x, d.d2)>>,
                             <<"bot", "y", FAdd(yy, d.d1)>>, <<"top", "y", FAdd(yy, d.d2)>> >>
                     ELSE << <<"left", "x", FSub(x, d.d2)>>, <<"right", "x", FAdd(x, d.d2)>>,
                             <<"bot", "y", FSub(yy, d.d2)>>, <<"top", "y", FSub(yy, d.d1)>> >>
            inner == IF e > 0 THEN <<"bot", "y", FSub(yy, d.d3)>>
                     ELSE <<"top", "y", FAdd(yy, d.d3)>>
            \* the North edge's east plate asks for bot and top, the South edge's for top alone
            ends  == IF e > 0 THEN <<inner, <<"top", "y", FAdd(yy, d.d2)>> >> ELSE <<inner>>
        IN  Then(Plate(st, IF e > 0 THEN "north" ELSE "south", outer), LAMBDA s1 :
            Then(IF ~west
                 THEN Plate(s1, "west", << <<"right", "x", FSub(x, d.d1)>>, inner >>)
                 ELSE s1, LAMBDA s2 :
                 IF s2.err = "ok" /\ ~east
                 THEN Plate(s2, "east", << <<"left", "x", FAdd(x, d.d1)>>,
                                           <<"right", "x", FAdd(x, d.d2)>> >> \o ends)
                 ELSE s2))))

\* One pass of the outer loop: the interior positions of row j, then the four
\* "edge cases" with index j.
\* The "edge cases" in the order of the code: West, East, North, South.
EdgeCases == <<"west", "east", "north", "south">>

RECURSIVE Edges(_, _, _, _, _)
Edges(st, core, d, j, k) ==
    IF k > Len(EdgeCases) \/ st.err # "ok" THEN st
    ELSE Then(IF EdgeCases[k] \in {"west", "east"}
              THEN SideEdge(st, core, d, j, IF EdgeCases[k] = "west" THEN -1 ELSE 1)
              ELSE EndEdge(st, core, d, j, IF EdgeCases[k] = "north" THEN 1 ELSE -1),
              LAMBDA s : Edges(s, core, d, j, k + 1))

Row(st, core, d, j) ==
    Then(InteriorRow(st, core, d, j, 1), LAMBDA s0 : Edges(s0, core, d, j, 1))

\* for j in range(1, n), from row j on.
RECURSIVE Rows(_, _, _, _)
Rows(st, core, d, j) ==
    IF j >= core.size - 1 \/ st.err # "ok" THEN st
    ELSE Then(Row(st, core, d, j), LAMBDA s : Rows(s, core, d, j + 1))

\* A corner case, of the upper or the lower row and of the left or the right
\* column: the plate on the corner's outer side face, then the plate on its
\* outer north or south face, which keeps two of the first one's planes.
Corner(st, core, d, upper, leftmost) ==
    IF ~Occupied(core.cmap, IF upper THEN 0 ELSE core.size - 1,
                 IF leftmost THEN 0 ELSE core.size - 1) THEN st
    ELSE
    Then(IF leftmost THEN FNeg(Outermost(core, d)) ELSE Outermost(core, d), LAMBDA x :
    Then(IF upper THEN Outermost(core, d) ELSE FNeg(Outermost(core, d)), LAMBDA y :
        LET side == IF leftmost
                    THEN << <<"left", "x", FSub(x, d.d2)>>, <<"right", "x", FSub(x, d.d1)>>,
                            <<"bot", "y", FSub(y, d.d2)>>,  <<"top", "y", FAdd(y, d.d2)>> >>
                    ELSE << <<"left", "x", FAdd(x, d.d1)>>, <<"right", "x", FAdd(x, d.d2)>>,
                            <<"bot", "y", FSub(y, d.d2)>>,  <<"top", "y", FAdd(y, d.d2)>> >>
            far  == IF leftmost THEN <<"right", "x", FAdd(x, d.d2)>>
                    ELSE <<"left", "x", FSub(x, d.d2)>>
        IN  Then(Plate(st, IF leftmost THEN "west" ELSE "east", side), LAMBDA s1 :
                 IF upper
                 THEN Plate(s1, "north", <<far, <<"bot", "y", FAdd(y, d.d1)>> >>)
                 ELSE Plate(s1, "south", <<far, <<"top", "y", FSub(y, d.d1)>> >>))))

\* The four corner cases in the order of the code: top left, top right,
\* bottom right, bottom left; each as <<upper, leftmost>>.
CornerCases == << <<TRUE, TRUE>>, <<TRUE, FALSE>>, <<FALSE, FALSE>>, <<FALSE, TRUE>> >>

\* The corner cases from the k-th on.
RECURSIVE Corners(_, _, _, _)
Corners(st, core, d, k) ==
    IF k > Len(CornerCases) THEN st
    ELSE Then(Corner(st, core, d, CornerCases[k][1], CornerCases[k][2]),
              LAMBDA s : Corners(s, core, d, k + 1))

\* get_openmc_baffle(self), for self.core = core, the generator's counter and
\* surface list in w and sl.  When the scan is through, line 376 evaluates
\* self.__counter(CELL): baffle.py neither defines nor imports CELL, so the
\* lookup raises NameError before the counter is called or a cell is made, and
\* nothing is returned.  master is the local master_region as the call left
\* it, by whichever exception.
get_openmc_baffle(w, sl, core) ==
    Then(Distances(core), LAMBDA d :
    Then(Rows(ScanStart(w, sl), core, d, 1), LAMBDA s0 :
    Then(IF s0.err = "ok" THEN Corners(s0, core, d, 1) ELSE s0, LAMBDA s :
        [w |-> s.w, sl |-> s.sl, ret |-> None,
         err |-> IF s.err # "ok" THEN s.err ELSE "NameError",
         master |-> Or(s.nodes)])))

----------------------------------------------------------------------------
(* Cores and their baffles; claims about get_openmc_baffle, under SpecBaffle *)

\* Assemblies across the largest core.
MaxSize == 3

\* Assembly pitch 20 cm, a gap of 1 cm and a plate 2 cm thick.
CorePitch == FInt(20)
Gap       == FInt(1)
Thick     == FInt(2)

\* The square occupancy maps of a core size assemblies across.
Grids(size) == [1..size -> [1..size -> BOOLEAN]]

\* A core of the given size and occupancy map.
Core(size, cmap) ==
    [size |-> size, pitch |-> CorePitch, baffle |-> Baffle(Iron, Thick, Gap), cmap |-> cmap]

\* One assembly more across: the cores with two rows of interior positions.
LargeSize == MaxSize + 1

\* The cores of the larger size that are full but for one position.
LargeCores ==
    {Core(LargeSize, [j \in 1..LargeSize |-> [i \in 1..LargeSize |-> <<j, i>> # hole]]) :
        hole \in (1..LargeSize) \X (1..LargeSize)}

\* Every core up to MaxSize across, and the larger ones.
Cores ==
    UNION {{Core(size, cmap) : cmap \in Grids(size)} : size \in 1..MaxSize} \cup LargeCores

\* One call of get_openmc_baffle on a generator that made nothing yet.
BaffleOp(cores) ==
    /\ ret = NoCall
    /\ \E core \in cores :
          \E b \in {get_openmc_baffle(World, surflist, core)} :
              /\ SetWorld(b.w)
              /\ surflist' = b.sl
              /\ ret' = [op |-> "get_openmc_baffle", core |-> core,
                         result |-> b.ret, err |-> b.err, master |-> b.master]
              /\ nops' = nops + 1
              /\ UNCHANGED <<griddict, asm, group>>

InitBaffle == InitWith(Uniform(NPins, PinA), Uniform(NPins, PinB), FALSE)

NextBaffle == BaffleOp(Cores)

SpecBaffle == InitBaffle /\ [][NextBaffle]_vars


Faces == {"north", "south", "east", "west"}

\* The 0-based positions of a core, its interior and its border.
Positions(core) == (0..(core.size - 1)) \X (0..(core.size - 1))
InteriorPositions(core) == (1..(core.size - 2)) \X (1..(core.size - 2))
BorderPositions(core) == Positions(core) \ InteriorPositions(core)

\* The centre of the assembly at row j, column i: rows run from the top down.
Centre(core, j, i) ==
    Then(Distances(core), LAMBDA d : [x |-> Along(core, d, i), y |-> Down(core, d, j)])

\* The position beyond the given face of position <<j, i>>.
Beyond(j, i, face) ==
    CASE face = "north" -> <<j - 1, i>>
      [] face = "south" -> <<j + 1, i>>
      [] face = "east"  -> <<j, i + 1>>
      [] face = "west"  -> <<j, i - 1>>

\* A face is exposed when the position beyond it is empty or outside the grid.
Exposed(core, j, i, face) ==
    LET b == Beyond(j, i, face)
    IN  b \notin Positions(core) \/ ~Occupied(core.cmap, b[1], b[2])

\* The rectangle of a node +left & -right & +bot & -top of the master region.
Rect(node) ==
    [left |-> surfaces[node.args[1].s].c0, right |-> surfaces[node.args[2].s].c0,
     bot  |-> surfaces[node.args[3].s].c0, top   |-> surfaces[node.args[4].s].c0]

\* Whether the rectangle r is a plate on the face of the position with centre
\* c: it lies between d1 and d2 from the centre, beyond the face, and runs
\* along the face at least from -d3 to d3.
IsPlateOn(d, c, r, face) ==
    CASE face = "west"  -> /\ r.left = FSub(c.x, d.d2) /\ r.right = FSub(c.x, d.d1)
                           /\ FLe(r.bot, FSub(c.y, d.d3)) /\ FLe(FAdd(c.y, d.d3), r.top)
      [] face = "east"  -> /\ r.left = FAdd(c.x, d.d1) /\ r.right = FAdd(c.x, d.d2)
                           /\ FLe(r.bot, FSub(c.y, d.d3)) /\ FLe(FAdd(c.y, d.d3), r.top)
      [] face = "north" -> /\ r.bot = FAdd(c.y, d.d1) /\ r.top = FAdd(c.y, d.d2)
                           /\ FLe(r.left, FSub(c.x, d.d3)) /\ FLe(FAdd(c.x, d.d3), r.right)
      [] face = "south" -> /\ r.bot = FSub(c.y, d.d2) /\ r.top = FSub(c.y, d.d1)
                           /\ FLe(r.left, FSub(c.x, d.d3)) /\ FLe(FAdd(c.x, d.d3), r.right)

\* The point in the middle of where the plate on a face goes.
PlateMiddle(d, c, face) ==
    Then(FDiv(FAdd(d.d1, d.d2), Two), LAMBDA m :
        CASE face = "west"  -> [x |-> FSub(c.x, m), y |-> c.y, z |-> FZero]
          [] face = "east"  -> [x |-> FAdd(c.x, m), y |-> c.y, z |-> FZero]
          [] face = "north" -> [x |-> c.x, y |-> FAdd(c.y, m), z |-> FZero]
          [] face = "south" -> [x |-> c.x, y |-> FSub(c.y, m), z |-> FZero])

\* The master region the scan built.
MasterRegion == ret.master

\* The rectangles of the master region's nodes.
Rects == {Rect(MasterRegion.args[k]) : k \in DOMAIN MasterRegion.args}

\* Whether the master region has a plate on the face, as a node and at the
\* middle point.
HasPlate(core, j, i, face) ==
    Then(Distances(core), LAMBDA d :
    Then(Centre(core, j, i), LAMBDA c :
    Then(PlateMiddle(d, c, face), LAMBDA pt :
        /\ \E r \in Rects : IsPlateOn(d, c, r, face)
        /\ InRegion(surfaces, MasterRegion, pt))))

\* Whether the master region has nothing on the face: no node is a plate on it
\* and the middle point is outside the region.
NoPlate(core, j, i, face) ==
    Then(Distances(core), LAMBDA d :
    Then(Centre(core, j, i), LAMBDA c :
    Then(PlateMiddle(d, c, face), LAMBDA pt :
        /\ \A r \in Rects : ~IsPlateOn(d, c, r, face)
        /\ ~InRegion(surfaces, MasterRegion, pt))))

\* Every face of the given occupied positions has a plate if it is exposed and
\* nothing if it is not.
PlatesWhereExposed(core, positions) ==
    \A p \in positions :
        Occupied(core.cmap, p[1], p[2]) =>
            \A face \in Faces :
                IF Exposed(core, p[1], p[2], face)
                THEN HasPlate(core, p[1], p[2], face)
                ELSE NoPlate(core, p[1], p[2], face)

\* C18: for every occupancy grid, the master region get_openmc_baffle has
\* built when the call ends has, for every occupied interior position (row and
\* column in 1..size-2) and each of its four faces independently, a plate
\* segment between d1 and d2 on that face if and only if the neighbour on that
\* side is empty.
C18_InteriorFaces ==
    ret.op = "get_openmc_baffle" =>
        PlatesWhereExposed(ret.core, InteriorPositions(ret.core))

\* A call on a core with an occupied interior position that has an exposed and
\* a covered face.
C18_Witness ==
    /\ ret.op = "get_openmc_baffle"
    /\ \E p \in InteriorPositions(ret.core) :
          /\ Occupied(ret.core.cmap, p[1], p[2])
          /\ \E f, g \in Faces : /\ Exposed(ret.core, p[1], p[2], f)
                                 /\ ~Exposed(ret.core, p[1], p[2], g)

\* C19: the scan completes without an error, and for every occupied position
\* on a border row or column, the four corners among them, each face has a
\* plate segment if and only if the neighbour on that side is empty or outside
\* the grid; no node of the master region is left over from an earlier
\* position: each node is the plate of an exposed face of an occupied
\* position, and no node is there twice.
C19_BorderFaces ==
    ret.op = "get_openmc_baffle" =>
        /\ ret.err = "ok"
        /\ PlatesWhereExposed(ret.core, BorderPositions(ret.core))
        /\ \A k \in DOMAIN MasterRegion.args :
              \E p \in Positions(ret.core), face \in Faces :
                  /\ Occupied(ret.core.cmap, p[1], p[2])
                  /\ Exposed(ret.core, p[1], p[2], face)
                  /\ IsPlateOn(Distances(ret.core), Centre(ret.core, p[1], p[2]),
                               Rect(MasterRegion.args[k]), face)
        /\ \A k, l \in DOMAIN MasterRegion.args :
              MasterRegion.args[k] = MasterRegion.args[l] => k = l

\* Whether every position of the core is occupied.
FullyOccupied(core) == \A p \in Positions(core) : Occupied(core.cmap, p[1], p[2])

\* The point where the plates on two adjacent outer faces of a corner position
\* meet; ex and ey are the signs of the corner's side in x and y.
CornerPoint(core, j, i, ex, ey) ==
    Then(Distances(core), LAMBDA d :
    Then(Centre(core, j, i), LAMBDA c :
    Then(FDiv(FAdd(d.d1, d.d2), Two), LAMBDA m :
        [x |-> IF ex < 0 THEN FSub(c.x, m) ELSE FAdd(c.x, m),
         y |-> IF ey < 0 THEN FSub(c.y, m) ELSE FAdd(c.y, m),
         z |-> FZero])))

\* C20: for a fully occupied core of n x n assemblies, n >= 2, the master
\* region has no plate along any edge two assemblies share, has a plate on
\* each of the 4n faces on the perimeter, and the two plates of each corner
\* assembly are joined around the corner.
C20_FullCore ==
    (ret.op = "get_openmc_baffle" /\ FullyOccupied(ret.core) /\ ret.core.size >= 2) =>
        LET n == ret.core.size - 1
        IN  /\ ret.err = "ok"
            /\ PlatesWhereExposed(ret.core, Positions(ret.core))
            /\ InRegion(surfaces, MasterRegion, CornerPoint(ret.core, 0, 0, -1, 1))
            /\ InRegion(surfaces, MasterRegion, CornerPoint(ret.core, 0, n, 1, 1))
            /\ InRegion(surfaces, MasterRegion, CornerPoint(ret.core, n, n, 1, -1))
            /\ InRegion(surfaces, MasterRegion, CornerPoint(ret.core, n, 0, -1, -1))


----------------------------------------------------------------------------
(* Assemblies of one lattice under four spacer grids; SpecMemo *)

\* The top of the lattice, cm.
MemoTop == 8

\* The spacer grids of thickness 0.1 cm in iron and of 0.05 cm in inconel,
\* with the given height.
SpacerKinds(height) ==
    {SpacerGrid("g1", height, Iron, Dec(1, 1)), SpacerGrid("g2", height, Inconel, Dec(5, 2))}

\* Four bands within the lattice, each with a spacer grid of either kind.
MemoConfigs ==
    UNION { { Config("asm", 0, NPins, <<L1.h>>, <<FZero, FInt(MemoTop)>>,
                     spacers,
                     [i \in 1..4 |-> FDiv(FInt(SortedSeq(S)[2 * i - 1] + SortedSeq(S)[2 * i]), Two)],
                     None, un)
              : spacers \in { sp \in [1..4 -> SpacerKinds(FInt(1)) \cup SpacerKinds(FInt(2))] :
                                \A i \in 1..4 :
                                    sp[i].height = FInt(SortedSeq(S)[2 * i] - SortedSeq(S)[2 * i - 1]) },
                un \in UpperNozzles }
            : S \in {T \in SUBSET (0..MemoTop) : Cardinality(T) = 8} }

NextMemo ==
    /\ nops < MaxBuilds
    /\ \/ BuildOp(MemoConfigs)
       \/ TestPrebuildOp(MemoConfigs)

SpecMemo == InitBuild /\ [][NextMemo]_vars

\* Whether the slab from lo to hi lies within the band of the i-th spacer grid
\* of configuration c.
InBandOf(c, i, lo, hi) ==
    /\ FLe(FSub(c.spacer_mids[i], FDiv(c.spacers[i].height, Two)), lo)
    /\ FLe(hi, FAdd(c.spacer_mids[i], FDiv(c.spacers[i].height, Two)))

\* Whether every pin cell of lattice lat carries a spacer of grid sg: its last
\* cell is filled with sg's material, and the inner edge of the spacer lies
\* sg's thickness inside the pin cell's edge.
BuiltWith(lat, sg) ==
    \A j \in DOMAIN lattices[lat].universes :
        \A i \in DOMAIN lattices[lat].universes[j] :
            LET u  == universes[lattices[lat].universes[j][i]]
                sp == cells[u.cells[Len(u.cells)]]
            IN  /\ sp.fill = sg.material
                /\ sp.region.op = "or"
                /\ surfaces[sp.region.args[1].args[2].s].c0
                      = FSub(FDiv(Pitch, Two), sg.thickness)

\* C21: whenever a layer lying inside the band of spacer grid s is filled with
\* a gridded lattice, that lattice and its pin cells were built with s's own
\* thickness and material, whatever the number and order of the spacer grids,
\* also when grids of different thickness or material lie on one lattice.
C21_GriddedWithOwnGrid ==
    LayersDone =>
        \A k \in DOMAIN asm.log :
            \A i \in DOMAIN asm.config.spacers :
                LET e == asm.log[k]
                IN  ( /\ cells[e.cell].fill.h \notin Range(asm.config.lattices)
                      /\ InBandOf(asm.config, i, surfaces[e.lower].c0, surfaces[e.upper].c0) )
                    => BuiltWith(cells[e.cell].fill.h, asm.config.spacers[i])


----------------------------------------------------------------------------
(* Claims about the inputs of add_spacer_to and add_grid_to, under SpecGrid *)

\* C22: add_spacer_to and add_grid_to never modify their inputs.  Every
\* universe, cell and lattice that exists before a call is the same after it:
\* each pin cell universe keeps its cells, its outermost cell keeps its id,
\* region and fill, and each lattice keeps its name, id and array of
\* universes; so this holds of the original ones after any sequence of calls.
C22_InputsUntouched ==
    [][ /\ Len(universes') >= Len(universes)
        /\ Len(cells') >= Len(cells)
        /\ Len(lattices') >= Len(lattices)
        /\ \A h \in DOMAIN universes : universes'[h] = universes[h]
        /\ \A h \in DOMAIN cells : cells'[h] = cells[h]
        /\ \A h \in DOMAIN lattices : lattices'[h] = lattices[h] ]_vars

\* The case of C22: after a spacer was added to a pin cell, a grid was added to
\* a lattice holding that pin cell, and the gridded lattice and pin cells exist
\* beside the original ones.
C22_Witness ==
    /\ nops = 2
    /\ ret.op = "add_grid_to" /\ ret.err = "ok"
    /\ Len(lattices) = 3
    /\ Len(universes) > 3
    /\ universes[PinA.h].cells = <<1, 2>>
    /\ cells[2].id = FirstId + 1 /\ cells[2].region = Half(1, 1) /\ cells[2].fill = Mod
    /\ lattices[L2.h].universes = Checker(NPins)


----------------------------------------------------------------------------
(* meshes.py: Mesh_Group *)

\* A number given for an optional argument; None stands for one left out.
Some(v) == [t |-> "num", v |-> v]

\* Python's truth value of an optional int: neither None nor zero.
Truthy(m) == m # None /\ m.v # 0

\* Python's truth value of an optional float: neither None nor 0.0.
TruthyFloat(m) == m # None /\ m.v # FZero

\* The number itself, or None.
ValueOf(m) == IF m = None THEN None ELSE m.v

\* np.isclose(nz, q): |nz - q| <= atol + rtol * |q| with atol = 1e-8 and
\* rtol = 1e-5, in floats.
IsClose(nz, q) ==
    FLe(FAbs(FSub(FInt(nz), q)), FAdd(Dec(1, 8), FMul(Dec(1, 5), FAbs(q))))

\* Mesh_Group(pitch, nx, ny, lower_left, id0), pitch one number.
Mesh_Group(pitch, nx, ny, lower_left, id0) ==
    [dx |-> pitch, dy |-> pitch, nx |-> nx, ny |-> ny,
     meshes |-> <<>>, mesh_filters |-> <<>>, tallies |-> <<>>,
     x0 |-> lower_left[1], y0 |-> lower_left[2], z0 |-> lower_left[3],
     z |-> lower_left[3], id0 |-> id0, nzs |-> None, dzs |-> None]

\* The end of add_mesh: the new mesh with its filter and tally appended,
\* _id0 += 1, _z = z1.  z1, nz, dz are as the branches left them: z1 and dz
\* floats or None, nz an int or None.
AppendMesh(self, z1, nz, dz) ==
    LET new_mesh  == [id |-> self.id0, type |-> "regular",
                      lower_left |-> <<self.x0, self.y0, self.z>>,
                      dimension  |-> <<self.nx, self.ny, nz>>,
                      width      |-> <<self.dx, self.dy, dz>>]
        new_tally == [id |-> self.id0, filters |-> <<Len(self.meshes) + 1>>,
                      scores |-> <<"fission">>]
    IN  [self EXCEPT !.meshes = Append(@, new_mesh),
                     !.mesh_filters = Append(@, Len(self.meshes) + 1),
                     !.tallies = Append(@, new_tally),
                     !.id0 = @ + 1,
                     !.z = z1]

\* Mesh_Group.add_mesh(z1, nz, dz), each argument Some(number) or None.  The
\* group's _z is None after a call that gave no z1 and took no branch; then
\* "z1 > self._z" and "self._z + nz*dz" raise TypeError.
add_mesh(self, z1, nz, dz) ==
    IF z1 # None /\ self.z = None
    THEN [self |-> self, err |-> "TypeError"]
    ELSE IF z1 # None /\ ~FLt(self.z, z1.v)
    THEN [self |-> self, err |-> "AssertionError"]
    ELSE IF Truthy(nz) /\ z1 # None
    THEN [self |-> AppendMesh(self, z1.v, nz.v, FDiv(FSub(z1.v, self.z), FInt(nz.v))),
          err |-> "ok"]
    ELSE IF Truthy(nz) /\ TruthyFloat(dz) /\ self.z = None
    THEN [self |-> self, err |-> "TypeError"]
    ELSE IF Truthy(nz) /\ TruthyFloat(dz)
    THEN [self |-> AppendMesh(self, FAdd(self.z, FMul(FInt(nz.v), dz.v)), nz.v, dz.v),
          err |-> "ok"]
    ELSE IF TruthyFloat(dz) /\ z1 # None
    THEN Then(FDiv(z1.v, dz.v), LAMBDA q :
              IF ~IsClose(RoundInt(q), q)
              THEN [self |-> self, err |-> "MeshError"]
              ELSE [self |-> AppendMesh(self, z1.v, RoundInt(q), dz.v), err |-> "ok"])
    ELSE [self |-> AppendMesh(self, ValueOf(z1), ValueOf(nz), ValueOf(dz)), err |-> "ok"]

\* What is assigned to nzs or dzs: a numpy array of numbers, or a plain list.
Array(v)     == [kind |-> "array", v |-> v]
PlainList(v) == [kind |-> "list",  v |-> v]

\* a.any() for the attribute a, whose entries are nonzero when not zero: None
\* and a list have no such method, an array has one and says whether some
\* entry is nonzero.
AnyOf(a, zero) ==
    IF a = None \/ a.kind # "array" THEN "AttributeError"
    ELSE IF \E i \in DOMAIN a.v : a.v[i] # zero THEN "true" ELSE "false"

\* The setter of Mesh_Group.nzs.
nzs_setter(self, nzs_in) ==
    IF self.dzs # None /\ Len(nzs_in.v) # Len(self.dzs.v)
    THEN [self |-> self, err |-> "IndexError"]
    ELSE [self |-> [self EXCEPT !.nzs = nzs_in], err |-> "ok"]

\* The setter of Mesh_Group.dzs.
dzs_setter(self, dzs_in) ==
    Then(AnyOf(self.nzs, 0), LAMBDA any :
        IF any = "AttributeError" THEN [self |-> self, err |-> any]
        ELSE IF any = "true" /\ Len(dzs_in.v) # Len(self.nzs.v)
        THEN [self |-> self, err |-> "IndexError"]
        ELSE [self |-> [self EXCEPT !.dzs = dzs_in], err |-> "ok"])

\* Mesh_Group.__assert_nzs_dzs: the exception raised, "ok" for none.
assert_nzs_dzs(self) ==
    Then(AnyOf(self.nzs, 0), LAMBDA any_nz :
        IF any_nz = "AttributeError" THEN any_nz
        ELSE IF any_nz = "false" THEN "AssertionError"
        ELSE Then(AnyOf(self.dzs, FZero), LAMBDA any_dz :
                 IF any_dz = "AttributeError" THEN any_dz
                 ELSE IF any_dz = "false" THEN "AssertionError"
                 ELSE "ok"))

\* Mesh_Group.n
GroupN(self) == IF self.dzs # None /\ self.nzs # None THEN Len(self.nzs.v) ELSE 0

\* "for i in range(self.n): self.add_mesh(nz = self._nzs[i], dz = self._dzs[i])"
\* from the i-th pair on (i from 1); the meshes added before an exception stay.
RECURSIVE AddMeshes(_, _)
AddMeshes(self, i) ==
    IF i > GroupN(self) THEN [self |-> self, err |-> "ok"]
    ELSE IF i > Len(self.dzs.v) THEN [self |-> self, err |-> "IndexError"]
    ELSE Then(add_mesh(self, None, Some(self.nzs.v[i]), Some(self.dzs.v[i])), LAMBDA m :
              IF m.err # "ok" THEN m ELSE AddMeshes(m.self, i + 1))

\* Mesh_Group.build_group()
build_group(self) ==
    Then(assert_nzs_dzs(self), LAMBDA e :
        IF e # "ok" THEN [self |-> self, err |-> e] ELSE AddMeshes(self, 1))

----------------------------------------------------------------------------
(* Mesh groups; claims about add_mesh, under SpecMesh *)

\* Calls of add_mesh in one behaviour, the highest top of a mesh in cm, and
\* the most cuts asked for.
MaxMeshes == 2
MeshTop   == 3
MaxCuts   == 2

\* Calls on a group in one behaviour, the assignments to nzs and dzs and the
\* calls of build_group among them.
MaxGroupOps == 3

\* The z of the lower left corner of a group, and the id of its first mesh.
MeshBottoms == {FZero, FInt(1), FInt(-1)}
MeshIds     == {FirstId, FirstId + 6}

\* The heights of a cut asked for: 0.1 cm, 0.5 cm and 1 cm.
CutHeights == {Dec(1, 1), OneHalf, FInt(1)}

\* The calls of add_mesh with two of z1, nz, dz.
MeshArgs ==
    {[z1 |-> Some(FInt(k)), nz |-> Some(n), dz |-> None] : k \in 0..MeshTop, n \in 1..MaxCuts}
    \cup {[z1 |-> None, nz |-> Some(n), dz |-> Some(d)] : n \in 1..MaxCuts, d \in CutHeights}
    \cup {[z1 |-> Some(FInt(k)), nz |-> None, dz |-> Some(d)] : k \in 0..MeshTop, d \in CutHeights}

\* group.add_mesh(z1, nz, dz)
AddMeshOp ==
    \E a \in MeshArgs :
        \E m \in {add_mesh(group, a.z1, a.nz, a.dz)} :
            /\ group' = m.self
            /\ ret' = [op |-> "add_mesh", z1 |-> a.z1, nz |-> a.nz, dz |-> a.dz,
                       err |-> m.err]
            /\ nops' = nops + 1
            /\ UNCHANGED <<counter, surfaces, cells, universes, lattices, materials,
                           surflist, griddict, asm>>

\* What is assigned to nzs and to dzs: arrays of one and of two cuts, an array
\* of zeros, and a plain list.
NzsInputs ==
    {Array(<<1>>), Array(<<1, MaxCuts>>), Array(<<0>>), PlainList(<<1, MaxCuts>>)}
DzsInputs ==
    {Array(<<OneHalf>>), Array(<<OneHalf, Dec(1, 1)>>), Array(<<FZero>>),
     PlainList(<<OneHalf, Dec(1, 1)>>)}

\* A call on the group that leaves it as m.self, raising m.err if not "ok".
GroupCall(r, m) ==
    /\ group' = m.self
    /\ ret' = r @@ [err |-> m.err]
    /\ nops' = nops + 1
    /\ UNCHANGED <<counter, surfaces, cells, universes, lattices, materials,
                   surflist, griddict, asm>>

\* group.nzs = a
SetNzsOp ==
    \E a \in NzsInputs : GroupCall([op |-> "nzs", arg |-> a], nzs_setter(group, a))

\* group.dzs = a
SetDzsOp ==
    \E a \in DzsInputs : GroupCall([op |-> "dzs", arg |-> a], dzs_setter(group, a))

\* group.build_group()
BuildGroupOp == GroupCall([op |-> "build_group"], build_group(group))

\* A Mesh_Group of 2 x 2 cuts of the pin pitch, before any mesh is added.
InitMesh ==
    \E z0 \in MeshBottoms, id0 \in MeshIds :
        \E w \in {InitWorld(Uniform(NPins, PinA), Uniform(NPins, PinB), FALSE)} :
            /\ counter = w.counter
            /\ surfaces = w.surfaces
            /\ cells = w.cells
            /\ universes = w.universes
            /\ lattices = w.lattices
            /\ materials = w.materials
            /\ surflist = <<>>
            /\ griddict = <<>>
            /\ asm = NoAssembly
            /\ ret = NoCall
            /\ nops = 0
            /\ group = Mesh_Group(Pitch, NPins, NPins, <<FZero, FZero, z0>>, id0)

NextMesh ==
    \/ nops < MaxMeshes /\ AddMeshOp
    \/ nops < MaxGroupOps /\ SetNzsOp
    \/ nops < MaxGroupOps /\ SetDzsOp
    \/ nops < MaxGroupOps /\ BuildGroupOp

SpecMesh == InitMesh /\ [][NextMesh]_vars

\* Whether the top of a mesh, its lower z + nz * dz, is z: equal to within
\* 1e-9 cm, far more than the rounding of these floats and far less than a cut.
TopIs(mesh, z) ==
    FLe(FAbs(FSub(FAdd(mesh.lower_left[3], FMul(FInt(mesh.dimension[3]), mesh.width[3])), z)),
        Dec(1, 9))

\* The meshes are stacked: the first starts at z0, each ends where the next
\* starts, the last ends at the group's height, and the ids run on from the
\* first one's.
MeshesStacked ==
    LET m == group.meshes
    IN  m # <<>> =>
          /\ m[1].lower_left[3] = group.z0
          /\ \A k \in 1..(Len(m) - 1) :
                /\ TopIs(m[k], m[k + 1].lower_left[3])
                /\ m[k + 1].id = m[k].id + 1
          /\ TopIs(m[Len(m)], group.z)

\* A call that adds meshes gives the first of them the id the group had for
\* it.
MeshTakesId0 ==
    Len(group'.meshes) > Len(group.meshes) =>
        /\ group'.meshes[Len(group.meshes) + 1].id = group.id0
        /\ Len(group.meshes) = 0 => group.id0 \in MeshIds

\* C23: after any sequence of successful add_mesh calls, each giving two of
\* z1, nz, dz, on a group with any z0, the meshes are stacked without gap or
\* overlap: the first starts at z0, each mesh's lower z plus nz * dz is the
\* next one's lower z, the last one's is the group's height, and the k-th mesh
\* added (k = 0, 1, ...) has the id id0 + k.
C23_MeshesStacked == []MeshesStacked /\ [][MeshTakesId0]_vars

====
